---------------------------- MODULE Spec2Model ----------------------------
(***************************************************************************)
(* A model of the doubly-linked list of src/doubly-linked-list.ts: the     *)
(* node heap (next / prev / element), the list objects (head / tail /      *)
(* length), the Iter and Cursor objects, and the operations on them.       *)
(*                                                                         *)
(* Objects are addressed by small integers; Null (0) is JavaScript's null. *)
(* A node that no list and no cursor can reach any more is garbage: the    *)
(* runtime collects it, and its number is free for the next new Node.      *)
(***************************************************************************)
EXTENDS Integers, Sequences, FiniteSets, TLC

\* ------------------------------------------------------------------ bounds
MaxNodes == 4
MaxLists == 2
\* The number of operations in a run of Spec, where every operation may
\* follow every other.
MaxSteps == 5

Null == 0
Nodes == 1..MaxNodes
Lists == 1..MaxLists
\* The element values pushed. The list never inspects an element, so two
\* values are enough to tell any two nodes of a list apart.
Elems == {1, 2}
NodeOrNull == Nodes \cup {Null}

VARIABLES
    next,       \* Node.next of every node
    prev,       \* Node.prev of every node
    element,    \* Node.element of every node (Null while not allocated)
    head,       \* DoublyLinkedList.head of every list object
    tail,       \* DoublyLinkedList.tail of every list object
    length,     \* DoublyLinkedList.length of every list object
    nlists,     \* number of DoublyLinkedList objects constructed so far
    cursor,     \* the live Cursor object, if any
    last,       \* history: the last operation, its arguments, result and pre-state
    abs,        \* history: the abstract sequences of the refinement (push/pop only)
    steps,      \* history: the number of operations made (counted in Spec only)
    iter,       \* the live Iter object, if any, and what it has yielded
    pipe,       \* the iterator adapter in use, its upstream iterators, its output
    opt         \* the Option objects in use

\* The state outside the lists and their cursor.
aside == <<iter, pipe, opt>>

vars == <<next, prev, element, head, tail, length, nlists, cursor, last, abs, steps,
          aside>>

\* The heap as one value, so that the operations can be written as functions
\* from heap to heap, as the source's functions are.
Heap ==
    [next |-> next, prev |-> prev, element |-> element,
     head |-> head, tail |-> tail, length |-> length, nlists |-> nlists]

\* The allocated list objects.
Live(h) == 1..h.nlists

\* The nodes reachable from a set of nodes by next and prev links.
RECURSIVE Closure(_, _, _)
Closure(h, S, fuel) ==
    LET T == (S \cup {h.next[n] : n \in S} \cup {h.prev[n] : n \in S}) \ {Null}
    IN  IF fuel = 0 \/ T = S THEN S ELSE Closure(h, T, fuel - 1)

\* The nodes the program can still reach: from the head and tail of its
\* lists and from its cursor.
Reachable(h, c) ==
    Closure(h, ({h.head[l] : l \in Live(h)} \cup {h.tail[l] : l \in Live(h)}
                \cup {c.curr}) \ {Null}, MaxNodes)

\* Garbage collection: the fields of unreachable nodes are gone.
Collect(h, c) ==
    LET R == Reachable(h, c) IN
    [h EXCEPT !.next = [n \in Nodes |-> IF n \in R THEN h.next[n] ELSE Null],
              !.prev = [n \in Nodes |-> IF n \in R THEN h.prev[n] ELSE Null],
              !.element = [n \in Nodes |-> IF n \in R THEN h.element[n] ELSE Null]]

\* The end of an operation: the heap and the cursor it leaves.
Commit(h, c) ==
    \E g \in {Collect(h, c)} :
    /\ next' = g.next
    /\ prev' = g.prev
    /\ element' = g.element
    /\ head' = g.head
    /\ tail' = g.tail
    /\ length' = g.length
    /\ nlists' = g.nlists
    /\ cursor' = c

\* A node number that is free (every node in use holds a non-null element).
HasFreeNode(h) == \E n \in Nodes : h.element[n] = Null
FreeNode(h) == CHOOSE n \in Nodes :
                   /\ h.element[n] = Null
                   /\ \A m \in Nodes : h.element[m] = Null => n <= m

\* ------------------------------------------------------------ constructors

\* new DoublyLinkedList(): head = tail = null, length = 0. The new object is
\* the one numbered h.nlists + 1.
NewList(h) ==
    LET l == h.nlists + 1 IN
    [h EXCEPT !.nlists = l,
              !.head[l] = Null,
              !.tail[l] = Null,
              !.length[l] = 0]

\* new Node(elt) at the free number n: next = prev = null, element = elt.
NewNode(h, n, elt) ==
    [h EXCEPT !.next[n] = Null,
              !.prev[n] = Null,
              !.element[n] = elt]

\* clear(): head = tail = null, length = 0 (the nodes are left as they are).
clear(h, l) ==
    [h EXCEPT !.head[l] = Null, !.tail[l] = Null, !.length[l] = 0]

\* ------------------------------------------------------- private functions

pushFrontNode(h, l, node) ==
    LET h1 == [h EXCEPT !.next[node] = h.head[l], !.prev[node] = Null]
        h2 == IF h1.head[l] = Null
              THEN [h1 EXCEPT !.tail[l] = node]
              ELSE [h1 EXCEPT !.prev[h1.head[l]] = node]
    IN  [h2 EXCEPT !.head[l] = node, !.length[l] = h2.length[l] + 1]

\* Returns the heap and the node popped (Null when the list has no head).
popFrontNode(h, l) ==
    IF h.head[l] = Null
    THEN [h |-> h, node |-> Null]
    ELSE LET node == h.head[l]
             h1 == [h EXCEPT !.head[l] = h.next[node]]
             h2 == IF h1.head[l] = Null
                   THEN [h1 EXCEPT !.tail[l] = Null]
                   ELSE [h1 EXCEPT !.prev[h1.head[l]] = Null]
         IN  [h |-> [h2 EXCEPT !.length[l] = h2.length[l] - 1], node |-> node]

\* pushBackNode that links the node behind tail but never sets head.
pushBackNode_NoHead(h, l, node) ==
    LET h1 == [h EXCEPT !.next[node] = Null, !.prev[node] = h.tail[l]]
        h2 == IF h1.tail[l] = Null
              THEN h1
              ELSE [h1 EXCEPT !.next[h1.tail[l]] = node]
    IN  [h2 EXCEPT !.tail[l] = node, !.length[l] = h2.length[l] + 1]

pushBackNode(h, l, node) ==
    LET h1 == [h EXCEPT !.next[node] = Null, !.prev[node] = h.tail[l]]
        h2 == IF h1.tail[l] = Null
              THEN [h1 EXCEPT !.head[l] = node]
              ELSE [h1 EXCEPT !.next[h1.tail[l]] = node]
    IN  [h2 EXCEPT !.tail[l] = node, !.length[l] = h2.length[l] + 1]

popBackNode(h, l) ==
    IF h.tail[l] = Null
    THEN [h |-> h, node |-> Null]
    ELSE LET node == h.tail[l]
             h1 == [h EXCEPT !.tail[l] = h.prev[node]]
             h2 == IF h1.tail[l] = Null
                   THEN [h1 EXCEPT !.head[l] = Null]
                   ELSE [h1 EXCEPT !.next[h1.tail[l]] = Null]
         IN  [h |-> [h2 EXCEPT !.length[l] = h2.length[l] - 1], node |-> node]

\* Node.intoElement under the `?.map(...) ?? null` of popFront / popBack.
intoElement(h, node) == IF node = Null THEN Null ELSE h.element[node]


splitOffAfterNode(h, l, splitNode, at) ==
    IF splitNode # Null
    THEN LET secondPartHead == h.next[splitNode]
             h1 == IF secondPartHead # Null
                   THEN [h EXCEPT !.prev[secondPartHead] = Null]
                   ELSE h
             secondPartTail == IF secondPartHead # Null THEN h1.tail[l] ELSE Null
             h2 == NewList(h1)
             secondPart == h2.nlists
             h3 == [h2 EXCEPT !.head[secondPart] = secondPartHead,
                              !.tail[secondPart] = secondPartTail,
                              !.length[secondPart] = h2.length[l] - at]
         IN  [h |-> [h3 EXCEPT !.tail[l] = splitNode, !.length[l] = at],
              ret |-> secondPart]
    ELSE [h |-> h, ret |-> l]

\* unlinkNode that leaves tail alone when the last node is unlinked.
unlinkNode_KeepTail(h, l, node) ==
    LET h1 == IF h.prev[node] # Null
              THEN [h EXCEPT !.next[h.prev[node]] = h.next[node]]
              ELSE [h EXCEPT !.head[l] = h.next[node]]
        h2 == IF h1.next[node] # Null
              THEN [h1 EXCEPT !.prev[h1.next[node]] = h1.prev[node]]
              ELSE h1
    IN  [h2 EXCEPT !.length[l] = h2.length[l] - 1]

unlinkNode(h, l, node) ==
    LET h1 == IF h.prev[node] # Null
              THEN [h EXCEPT !.next[h.prev[node]] = h.next[node]]
              ELSE [h EXCEPT !.head[l] = h.next[node]]
        h2 == IF h1.next[node] # Null
              THEN [h1 EXCEPT !.prev[h1.next[node]] = h1.prev[node]]
              ELSE [h1 EXCEPT !.tail[l] = h1.prev[node]]
    IN  [h2 EXCEPT !.length[l] = h2.length[l] - 1]

\* ----------------------------------------------------------------- Iter

\* new Iter(list): head, tail and length copied from the list.
IterNew(h, l) == [head |-> h.head[l], tail |-> h.tail[l], length |-> h.length[l]]

\* Iter.next(): the iterator afterwards and the value returned.
IterNext(h, it) ==
    IF it.length = 0 \/ it.head = Null
    THEN [it |-> it, ret |-> Null]
    ELSE [it |-> [it EXCEPT !.length = it.length - 1, !.head = h.next[it.head]],
          ret |-> h.element[it.head]]

\* nextBack that does not count the item it yields.
IterNextBack_NoCount(h, it) ==
    IF it.length = 0 \/ it.tail = Null
    THEN [it |-> it, ret |-> Null]
    ELSE [it |-> [it EXCEPT !.tail = h.prev[it.tail]], ret |-> h.element[it.tail]]

\* Iter.nextBack().
IterNextBack(h, it) ==
    IF it.length = 0 \/ it.tail = Null
    THEN [it |-> it, ret |-> Null]
    ELSE [it |-> [it EXCEPT !.length = it.length - 1, !.tail = h.prev[it.tail]],
          ret |-> h.element[it.tail]]

\* Iter.sizeHint().
sizeHint(it) == <<it.length, it.length>>

\* Iter.count(): return this.length.
IterCount(it) == it.length

\* Iter.last(): this.tail?.map(Node.intoElement) ?? null.
IterLast(h, it) == IF it.tail = Null THEN Null ELSE intoElement(h, it.tail)

\* No Iter object is live. fwd and bwd: the nodes the live Iter has yielded
\* from next() and from nextBack(), in the order it yielded them.
NoIter == [list |-> Null, it |-> [head |-> Null, tail |-> Null, length |-> 0],
           fwd |-> <<>>, bwd |-> <<>>]

\* for (let _ = 0; _ < n; _++) iter.next();
RECURSIVE IterNextTimes(_, _, _)
IterNextTimes(h, it, n) ==
    IF n <= 0 THEN it ELSE IterNextTimes(h, IterNext(h, it).it, n - 1)

\* for (let _ = 0; _ < n; _++) iter.nextBack();
RECURSIVE IterNextBackTimes(_, _, _)
IterNextBackTimes(h, it, n) ==
    IF n <= 0 THEN it ELSE IterNextBackTimes(h, IterNextBack(h, it).it, n - 1)

\* --------------------------------------------------------------- Cursor

NoCursor == [idx |-> 0, curr |-> Null, list |-> Null]

\* list.cursorFront(): new Cursor(0, null, list).
cursorFront(h, l) == [idx |-> 0, curr |-> Null, list |-> l]

\* list.cursorBack(): new Cursor(list.len() - 1, null, list).
cursorBack(h, l) == [idx |-> h.length[l] - 1, curr |-> Null, list |-> l]

\* moveNext that leaves idx as it is when it steps from a node to its next.
moveNext_KeepIdx(h, c) ==
    IF c.curr = Null
    THEN [c EXCEPT !.curr = h.head[c.list], !.idx = 0]
    ELSE [c EXCEPT !.curr = h.next[c.curr]]

moveNext(h, c) ==
    IF c.curr = Null
    THEN [c EXCEPT !.curr = h.head[c.list], !.idx = 0]
    ELSE [c EXCEPT !.curr = h.next[c.curr], !.idx = c.idx + 1]

\* movePrev that enters the list at head when it leaves Ghost.
movePrev_FromHead(h, c) ==
    IF c.curr = Null
    THEN [c EXCEPT !.curr = h.head[c.list], !.idx = h.length[c.list] - 1]
    ELSE [c EXCEPT !.curr = h.prev[c.curr], !.idx = c.idx - 1]

movePrev(h, c) ==
    IF c.curr = Null
    THEN [c EXCEPT !.curr = h.tail[c.list], !.idx = h.length[c.list] - 1]
    ELSE [c EXCEPT !.curr = h.prev[c.curr], !.idx = c.idx - 1]

\* Cursor.current().
current(h, c) == IF c.curr = Null THEN Null ELSE h.element[c.curr]

\* removeCurrent that leaves the cursor on the node it has unlinked.
removeCurrent_Stay(h, c) ==
    IF c.curr = Null
    THEN [h |-> h, c |-> c, ret |-> Null]
    ELSE [h |-> unlinkNode(h, c.list, c.curr), c |-> c, ret |-> h.element[c.curr]]

\* Cursor.removeCurrent(): the heap and the cursor afterwards, the value returned.
removeCurrent(h, c) ==
    IF c.curr = Null
    THEN [h |-> h, c |-> c, ret |-> Null]
    ELSE LET unlinkedNode == c.curr IN
         [h |-> unlinkNode(h, c.list, unlinkedNode),
          c |-> [c EXCEPT !.curr = h.next[unlinkedNode]],
          ret |-> h.element[unlinkedNode]]

\* for (let _ = 0; _ < n; _++) cursor.moveNext();
RECURSIVE moveNextTimes(_, _, _)
moveNextTimes(h, c, n) ==
    IF n <= 0 THEN c ELSE moveNextTimes(h, moveNext(h, c), n - 1)

\* for (let _ = 0; _ < n; _++) cursor.movePrev();
RECURSIVE movePrevTimes(_, _, _)
movePrevTimes(h, c, n) ==
    IF n <= 0 THEN c ELSE movePrevTimes(h, movePrev(h, c), n - 1)

\* ------------------------------------------------ DoublyLinkedList methods

\* append that splices a non-empty other onto a non-empty list but does not
\* clear other.
append_NoClear(h, a, b) ==
    IF h.tail[a] = Null
    THEN clear([h EXCEPT !.head[a] = h.head[b],
                         !.tail[a] = h.tail[b],
                         !.length[a] = h.length[b]], b)
    ELSE IF h.head[b] # Null
         THEN [h EXCEPT !.next[h.tail[a]] = h.head[b],
                        !.prev[h.head[b]] = h.tail[a],
                        !.tail[a] = h.tail[b],
                        !.length[a] = h.length[a] + h.length[b]]
         ELSE h

\* append(other); a = this, b = other.
append(h, a, b) ==
    IF h.tail[a] = Null
    THEN clear([h EXCEPT !.head[a] = h.head[b],
                         !.tail[a] = h.tail[b],
                         !.length[a] = h.length[b]], b)
    ELSE IF h.head[b] # Null
         THEN clear([h EXCEPT !.next[h.tail[a]] = h.head[b],
                              !.prev[h.head[b]] = h.tail[a],
                              !.tail[a] = h.tail[b],
                              !.length[a] = h.length[a] + h.length[b]], b)
         ELSE h

\* splitOff(at): the heap afterwards, the list returned, whether it threw.
splitOff(h, l, at) ==
    LET len == h.length[l] IN
    IF ~(at <= len) THEN [h |-> h, ret |-> Null, threw |-> TRUE]
    ELSE IF at = 0 THEN [h |-> h, ret |-> l, threw |-> FALSE]
    ELSE IF at = len
         THEN LET h1 == NewList(h) IN [h |-> h1, ret |-> h1.nlists, threw |-> FALSE]
    ELSE LET splitNode ==
                 IF at - 1 <= len - 1 - (at - 1)
                 THEN IterNextTimes(h, IterNew(h, l), at - 1).head
                 ELSE IterNextBackTimes(h, IterNew(h, l), len - 1 - (at - 1)).tail
             r == splitOffAfterNode(h, l, splitNode, at)
         IN  [h |-> r.h, ret |-> r.ret, threw |-> FALSE]

\* remove that accepts at = len.
remove_OffByOne(h, l, at) ==
    LET len == h.length[l]
        offsetFromEnd == len - at - 1
    IN  IF ~(at <= len) THEN [h |-> h, ret |-> Null, threw |-> TRUE]
        ELSE LET c == IF at <= offsetFromEnd
                      THEN moveNextTimes(h, cursorFront(h, l), at)
                      ELSE movePrevTimes(h, cursorBack(h, l), offsetFromEnd)
                 r == removeCurrent(h, c)
             IN  [h |-> r.h, ret |-> r.ret, threw |-> FALSE]

\* remove(at): the heap afterwards, the value returned, whether it threw.
remove(h, l, at) ==
    LET len == h.length[l]
        offsetFromEnd == len - at - 1
    IN  IF ~(at < len) THEN [h |-> h, ret |-> Null, threw |-> TRUE]
        ELSE LET c == IF at <= offsetFromEnd
                      THEN moveNextTimes(h, cursorFront(h, l), at)
                      ELSE movePrevTimes(h, cursorBack(h, l), offsetFromEnd)
                 r == removeCurrent(h, c)
             IN  [h |-> r.h, ret |-> r.ret, threw |-> FALSE]

\* ---------------------------------------------------------- observations

\* The elements read by following next from a node until null, at most `fuel`
\* nodes (a corrupted chain may be cyclic).
RECURSIVE ElemsFrom(_, _, _)
ElemsFrom(h, n, fuel) ==
    IF n = Null \/ fuel = 0 THEN <<>>
    ELSE <<h.element[n]>> \o ElemsFrom(h, h.next[n], fuel - 1)

\* The nodes reached by following next from a node until null.
RECURSIVE NodesFrom(_, _, _)
NodesFrom(h, n, fuel) ==
    IF n = Null \/ fuel = 0 THEN <<>>
    ELSE <<n>> \o NodesFrom(h, h.next[n], fuel - 1)

\* The chain of list l: the elements and the nodes met by following next from
\* head until null, as Iter.any (contains), Iter.toString and for-of do.
Walk(h, l) == ElemsFrom(h, h.head[l], MaxNodes + 1)
WalkNodes(h, l) == NodesFrom(h, h.head[l], MaxNodes + 1)

\* What calling next() on an iterator until it returns null yields.
RECURSIVE IterDrain(_, _, _)
IterDrain(h, it, fuel) ==
    LET r == IterNext(h, it) IN
    IF r.ret = Null \/ fuel = 0 THEN <<>>
    ELSE <<r.ret>> \o IterDrain(h, r.it, fuel - 1)

\* What list.iter() yields to repeated next() calls: at most len() elements.
IterElems(h, l) == IterDrain(h, IterNew(h, l), MaxNodes + 1)

\* pushFront(elt): let node = new Node(elt); pushFrontNode(this, node).
pushFront(h, l, elt) ==
    LET node == FreeNode(h) IN pushFrontNode(NewNode(h, node, elt), l, node)

\* pushBack(elt): let node = new Node(elt); pushBackNode(this, node).
pushBack(h, l, elt) ==
    LET node == FreeNode(h) IN pushBackNode(NewNode(h, node, elt), l, node)

\* popFront(): popFrontNode(this)?.map(Node.intoElement) ?? null.
popFront(h, l) ==
    LET r == popFrontNode(h, l) IN [h |-> r.h, ret |-> intoElement(h, r.node)]

\* popBack(): popBackNode(this)?.map(Node.intoElement) ?? null.
popBack(h, l) ==
    LET r == popBackNode(h, l) IN [h |-> r.h, ret |-> intoElement(h, r.node)]

\* isEmpty(), len(), front(), back().
isEmpty(h, l) == h.head[l] = Null
len(h, l) == h.length[l]
front(h, l) == intoElement(h, h.head[l])
back(h, l) == intoElement(h, h.tail[l])

\* The elements returned by calling popFront() on list l until it returns null.
RECURSIVE PopFrontAll(_, _, _)
PopFrontAll(h, l, fuel) ==
    LET r == popFront(h, l) IN
    IF r.ret = Null \/ fuel = 0 THEN <<>>
    ELSE <<r.ret>> \o PopFrontAll(r.h, l, fuel - 1)

\* ------------------------------------------------------------------ Init

InitHeap ==
    [next |-> [n \in Nodes |-> Null],
     prev |-> [n \in Nodes |-> Null],
     element |-> [n \in Nodes |-> Null],
     head |-> [l \in Lists |-> Null],
     tail |-> [l \in Lists |-> Null],
     length |-> [l \in Lists |-> 0],
     nlists |-> 1]

\* The record of the last operation: its name, receiver, argument and result,
\* and whether it threw.
\* was: after a splitOff or an append, what the receiver held before it.
\* run: after a cursor move, the number of moves in that direction made in a
\* row since the cursor was last at Ghost (-1 when the moves were mixed).
Op(name, l, arg, ret, threw) ==
    [op |-> name, list |-> l, arg |-> arg, ret |-> ret, threw |-> threw,
     was |-> <<>>, run |-> 0 - 1]

\* No iterator adapter is in use.
NoPipe == [kind |-> "none"]

\* One list object has been constructed and nothing else has happened.
InitList ==
    /\ next = InitHeap.next
    /\ prev = InitHeap.prev
    /\ element = InitHeap.element
    /\ head = InitHeap.head
    /\ tail = InitHeap.tail
    /\ length = InitHeap.length
    /\ nlists = InitHeap.nlists
    /\ cursor = NoCursor
    /\ last = Op("new", Null, 0, Null, FALSE)
    /\ abs = [seq |-> [l \in Lists |-> <<>>], ret |-> Null]
    /\ steps = 0
    /\ iter = NoIter

\* No Option object is in use.
NoOpt == [kind |-> "none"]

\* The lists, with no iterator adapter and no Option in use.
Init == InitList /\ pipe = NoPipe /\ opt = NoOpt

\* A Cursor holds its list exclusively (the source's single-owner rule): while
\* one is live on list l, the list's own methods are not called on l.
Free(l) == l \in Live(Heap) /\ cursor.list # l

\* --------------------------------------------------------------- actions

\* new DoublyLinkedList().
Construct ==
    /\ nlists < MaxLists
    /\ Commit(NewList(Heap), cursor)
    /\ last' = Op("new", nlists + 1, 0, Null, FALSE)

PushFront(l, x) ==
    /\ Free(l)
    /\ HasFreeNode(Heap)
    /\ Commit(pushFront(Heap, l, x), cursor)
    /\ last' = Op("pushFront", l, x, Null, FALSE)

PushBack(l, x) ==
    /\ Free(l)
    /\ HasFreeNode(Heap)
    /\ Commit(pushBack(Heap, l, x), cursor)
    /\ last' = Op("pushBack", l, x, Null, FALSE)

PopFront(l) ==
    /\ Free(l)
    /\ LET r == popFront(Heap, l) IN
        /\ Commit(r.h, cursor)
        /\ last' = Op("popFront", l, 0, r.ret, FALSE)

PopBack(l) ==
    /\ Free(l)
    /\ LET r == popBack(Heap, l) IN
        /\ Commit(r.h, cursor)
        /\ last' = Op("popBack", l, 0, r.ret, FALSE)

\* The indexes tried on list l: every index of the list, its length, and the
\* first index past its length.
Indexes(l) == 0..(len(Heap, l) + 1)

AppendList(a, b) ==
    /\ Free(a)
    /\ Free(b)
    /\ Commit(append(Heap, a, b), cursor)
    /\ last' = [Op("append", a, b, Null, FALSE) EXCEPT !.was = Walk(Heap, a)]

SplitOff(l, at) ==
    /\ Free(l)
    /\ nlists < MaxLists
    /\ LET r == splitOff(Heap, l, at) IN
        /\ Commit(r.h, cursor)
        /\ last' = [Op("splitOff", l, at, r.ret, r.threw) EXCEPT !.was = Walk(Heap, l)]

Remove(l, at) ==
    /\ Free(l)
    /\ LET r == remove(Heap, l, at) IN
        /\ Commit(r.h, cursor)
        /\ last' = Op("remove", l, at, r.ret, r.threw)

Clear(l) ==
    /\ Free(l)
    /\ Commit(clear(Heap, l), cursor)
    /\ last' = Op("clear", l, 0, Null, FALSE)

CursorFront(l) ==
    /\ l \in Live(Heap)
    /\ cursor.list = Null
    /\ Commit(Heap, cursorFront(Heap, l))
    /\ last' = Op("cursorFront", l, 0, Null, FALSE)

CursorBack(l) ==
    /\ l \in Live(Heap)
    /\ cursor.list = Null
    /\ Commit(Heap, cursorBack(Heap, l))
    /\ last' = Op("cursorBack", l, 0, Null, FALSE)

\* The length of the run of moves `op` that the move being made extends.
Run(op) ==
    IF cursor.curr = Null THEN 1
    ELSE IF last.op = op /\ last.run >= 1 THEN last.run + 1
    ELSE 0 - 1

MoveNext ==
    /\ cursor.list # Null
    /\ LET c == moveNext(Heap, cursor) IN
        /\ Commit(Heap, c)
        /\ last' = [Op("moveNext", cursor.list, 0, current(Heap, c), FALSE)
                       EXCEPT !.run = Run("moveNext")]

MovePrev ==
    /\ cursor.list # Null
    /\ LET c == movePrev(Heap, cursor) IN
        /\ Commit(Heap, c)
        /\ last' = [Op("movePrev", cursor.list, 0, current(Heap, c), FALSE)
                       EXCEPT !.run = Run("movePrev")]

RemoveCurrent ==
    /\ cursor.list # Null
    /\ LET r == removeCurrent(Heap, cursor) IN
        /\ Commit(r.h, r.c)
        /\ last' = Op("removeCurrent", cursor.list, 0, r.ret, FALSE)

\* The program lets go of its cursor.
DropCursor ==
    /\ cursor.list # Null
    /\ Commit(Heap, NoCursor)
    /\ last' = Op("dropCursor", cursor.list, 0, Null, FALSE)

\* One more operation of a run of Spec.
Counted == steps < MaxSteps /\ steps' = steps + 1 /\ UNCHANGED <<abs, aside>>

\* An operation of a run whose length is not counted.
Plain == UNCHANGED <<abs, steps, aside>>

\* Every operation of the list and of its cursor, in any order.
Next ==
    \/ Counted /\ Construct
    \/ \E l \in Lists, x \in Elems : Counted /\ PushFront(l, x)
    \/ \E l \in Lists, x \in Elems : Counted /\ PushBack(l, x)
    \/ \E l \in Lists : Counted /\ PopFront(l)
    \/ \E l \in Lists : Counted /\ PopBack(l)
    \/ \E a, b \in Lists : Counted /\ AppendList(a, b)
    \/ \E l \in Lists : \E at \in Indexes(l) : Counted /\ SplitOff(l, at)
    \/ \E l \in Lists : \E at \in Indexes(l) : Counted /\ Remove(l, at)
    \/ \E l \in Lists : Counted /\ Clear(l)
    \/ \E l \in Lists : Counted /\ CursorFront(l)
    \/ \E l \in Lists : Counted /\ CursorBack(l)
    \/ Counted /\ MoveNext
    \/ Counted /\ MovePrev
    \/ Counted /\ RemoveCurrent
    \/ Counted /\ DropCursor

Spec == Init /\ [][Next]_vars

\* Any sequence of pushFront, pushBack, popFront, popBack and remove.
NextRemove ==
    \/ \E l \in Lists, x \in Elems : PushFront(l, x) /\ Plain
    \/ \E l \in Lists, x \in Elems : PushBack(l, x) /\ Plain
    \/ \E l \in Lists : PopFront(l) /\ Plain
    \/ \E l \in Lists : PopBack(l) /\ Plain
    \/ \E l \in Lists : \E at \in Indexes(l) : Remove(l, at) /\ Plain

SpecRemove == Init /\ [][NextRemove]_vars

\* Two lists built by pushes at both ends and appended to each other, in both
\* directions and any number of times. (append touches its receiver and its
\* argument only, so a second list is all it takes.)
NextAppend ==
    \/ nlists < 2 /\ Construct /\ Plain
    \/ \E l \in Lists, x \in Elems : PushFront(l, x) /\ Plain
    \/ \E l \in Lists, x \in Elems : PushBack(l, x) /\ Plain
    \/ \E a, b \in Lists : a # b /\ AppendList(a, b) /\ Plain

SpecAppend == Init /\ [][NextAppend]_vars

\* Lists built by pushes and pops, and a cursor moved over them.
NextCursor ==
    \/ \E l \in Lists, x \in Elems : PushFront(l, x) /\ Plain
    \/ \E l \in Lists, x \in Elems : PushBack(l, x) /\ Plain
    \/ \E l \in Lists : PopFront(l) /\ Plain
    \/ \E l \in Lists : PopBack(l) /\ Plain
    \/ \E l \in Lists : CursorFront(l) /\ Plain
    \/ \E l \in Lists : CursorBack(l) /\ Plain
    \/ MoveNext /\ Plain
    \/ MovePrev /\ Plain
    \/ RemoveCurrent /\ Plain
    \/ DropCursor /\ Plain

SpecCursor == Init /\ [][NextCursor]_vars

\* ------------------------------ push / pop against an abstract sequence

\* The same four operations applied to a plain sequence.
AbsPushFront(s, x) == <<x>> \o s
AbsPushBack(s, x) == Append(s, x)
AbsPopFront(s) == IF s = <<>> THEN [seq |-> s, ret |-> Null]
                  ELSE [seq |-> Tail(s), ret |-> Head(s)]
AbsPopBack(s) == IF s = <<>> THEN [seq |-> s, ret |-> Null]
                 ELSE [seq |-> SubSeq(s, 1, Len(s) - 1), ret |-> s[Len(s)]]

RefPushFront(l, x) ==
    /\ PushFront(l, x)
    /\ UNCHANGED <<steps, aside>>
    /\ abs' = [seq |-> [abs.seq EXCEPT ![l] = AbsPushFront(@, x)], ret |-> Null]

RefPushBack(l, x) ==
    /\ PushBack(l, x)
    /\ UNCHANGED <<steps, aside>>
    /\ abs' = [seq |-> [abs.seq EXCEPT ![l] = AbsPushBack(@, x)], ret |-> Null]

RefPopFront(l) ==
    /\ PopFront(l)
    /\ UNCHANGED <<steps, aside>>
    /\ abs' = [seq |-> [abs.seq EXCEPT ![l] = AbsPopFront(@).seq],
               ret |-> AbsPopFront(abs.seq[l]).ret]

RefPopBack(l) ==
    /\ PopBack(l)
    /\ UNCHANGED <<steps, aside>>
    /\ abs' = [seq |-> [abs.seq EXCEPT ![l] = AbsPopBack(@).seq],
               ret |-> AbsPopBack(abs.seq[l]).ret]

NextPushPop ==
    \E l \in Lists, x \in Elems :
        \/ RefPushFront(l, x)
        \/ RefPushBack(l, x)
        \/ RefPopFront(l)
        \/ RefPopBack(l)

\* Any sequence of pushFront, pushBack, popFront and popBack.
SpecPushPop == Init /\ [][NextPushPop]_vars

\* What C1 asks of one step of the program.
C1_Step ==
    /\ \A l \in Live(Heap') :
        /\ Walk(Heap', l) = abs'.seq[l]
        /\ IterElems(Heap', l) = abs'.seq[l]
        /\ len(Heap', l) = Len(abs'.seq[l])
    /\ last'.op \in {"popFront", "popBack"} =>
        /\ last'.ret = abs'.ret
        /\ Walk(Heap, last'.list) = <<>> => (last'.ret = Null /\ Heap' = Heap)
    /\ (last'.op = "popBack" /\ last.op = "pushBack" /\ last'.list = last.list) =>
        last'.ret = last.arg
    /\ (last'.op = "popFront" /\ last.op = "pushFront" /\ last'.list = last.list) =>
        last'.ret = last.arg

\* C1: the list refines an abstract sequence under pushFront, pushBack,
\* popFront and popBack: after every operation the elements read from head to
\* tail are the abstract sequence, len() is its length, a pop has returned
\* what the abstract pop returns (so a pop right after a push at the same end
\* returns the pushed element), and a pop on an empty list returns Absent and
\* changes nothing.
C1_Refinement == [][C1_Step]_vars

\* A pop has returned an element of a list that holds two more elements.
C1_Witness ==
    /\ last.op \in {"popFront", "popBack"}
    /\ last.ret # Null
    /\ Len(abs.seq[last.list]) >= 2
    /\ len(Heap, last.list) = 2

\* ------------------------------------------------------ list invariants

\* head === null, tail === null and length === 0 are equivalent.
EmptyEquiv(h, l) ==
    /\ (h.head[l] = Null) <=> (h.tail[l] = Null)
    /\ (h.tail[l] = Null) <=> (h.length[l] = 0)

\* The cached length is the number of nodes reached from head by next, and
\* the last node reached is tail.
LengthAndTail(h, l) ==
    LET ns == NodesFrom(h, h.head[l], MaxNodes + 1) IN
    /\ h.length[l] = Len(ns)
    /\ IF ns = <<>> THEN h.tail[l] = Null ELSE h.tail[l] = ns[Len(ns)]

\* head.prev and tail.next are null, every node but head is its prev's next,
\* every node but tail is its next's prev.
Links(h, l) ==
    LET ns == NodesFrom(h, h.head[l], MaxNodes + 1) IN
    /\ h.head[l] # Null => h.prev[h.head[l]] = Null
    /\ h.tail[l] # Null => h.next[h.tail[l]] = Null
    /\ \A i \in 1..Len(ns) :
        /\ ns[i] # h.head[l] => (h.prev[ns[i]] # Null /\ h.next[h.prev[ns[i]]] = ns[i])
        /\ ns[i] # h.tail[l] => (h.next[ns[i]] # Null /\ h.prev[h.next[ns[i]]] = ns[i])

\* A list as the data model describes it.
WellFormed(h, l) == EmptyEquiv(h, l) /\ LengthAndTail(h, l) /\ Links(h, l)

\* C2: in every state reachable by pushFront, pushBack, popFront, popBack,
\* append, splitOff, remove, clear and Cursor.removeCurrent, head === null,
\* tail === null and length === 0 are equivalent for every list.
C2_EmptyEquiv == \A l \in Live(Heap) : EmptyEquiv(Heap, l)

\* C3: after any sequence of pushFront, pushBack, popFront, popBack and
\* remove, the cached length of the list is the number of nodes reached by
\* following next from head until null, and the last node reached is tail.
C3_LengthAndTail == \A l \in Live(Heap) : LengthAndTail(Heap, l)

\* A remove has unlinked a node of a list that still holds two nodes.
C3_Witness ==
    /\ last.op = "remove"
    /\ ~last.threw
    /\ last.ret # Null
    /\ len(Heap, last.list) = 2
    /\ Len(WalkNodes(Heap, last.list)) = 2

\* C4: in every state reachable by the list operations, the links of each
\* list are consistent: head.prev is null, tail.next is null, every node but
\* head is its prev's next and every node but tail is its next's prev.
C4_Links == \A l \in Live(Heap) : Links(Heap, l)

\* ------------------------------------------------------------- append

\* What C5 asks of one step of the program.
C5_Step ==
    /\ last'.op = "append" =>
        LET a == last'.list
            b == last'.arg
        IN  /\ Walk(Heap', a) = Walk(Heap, a) \o Walk(Heap, b)
            /\ IterElems(Heap', a) = Walk(Heap, a) \o Walk(Heap, b)
            /\ len(Heap', a) = len(Heap, a) + len(Heap, b)
            /\ len(Heap', a) = Len(Walk(Heap', a))
            /\ len(Heap', b) = 0
            /\ isEmpty(Heap', b)
            /\ Heap'.head[b] = Null /\ Heap'.tail[b] = Null
            /\ Walk(Heap', b) = <<>>
            /\ IterElems(Heap', b) = <<>>
    /\ (last.op = "append" /\ last'.op \in {"pushFront", "pushBack"}
            /\ last'.list = last.arg) =>
        /\ Walk(Heap', last.arg) = <<last'.arg>>
        /\ len(Heap', last.arg) = 1
        /\ Walk(Heap', last.list) = Walk(Heap, last.list)
        /\ len(Heap', last.list) = len(Heap, last.list)
        /\ WellFormed(Heap', last.list) /\ WellFormed(Heap', last.arg)

\* C5: for two distinct lists A and B (either may be empty), after
\* A.append(B), A holds A's former elements followed by B's former elements,
\* A.len() is the sum of the former lengths, B is empty (len() = 0,
\* isEmpty(), head and tail null), and B is usable for later pushes: a push
\* on B right after makes B hold just the pushed element and leaves A alone.
C5_Append == [][C5_Step]_vars

\* A non-empty B has been appended to a non-empty A, which now holds three
\* elements that are not all the same, and B is empty.
C5_Witness ==
    /\ last.op = "append"
    /\ last.list # last.arg
    /\ Len(last.was) >= 1
    /\ len(Heap, last.list) = 3
    /\ Len(last.was) < 3
    /\ Walk(Heap, last.list)[1] # Walk(Heap, last.list)[3]
    /\ isEmpty(Heap, last.arg)

\* ----------------------------------------------------------- splitOff

\* The sequence s without its first n elements, and its first n elements.
DropSeq(s, n) == SubSeq(s, n + 1, Len(s))
TakeSeq(s, n) == SubSeq(s, 1, n)

\* What C6 asks of one step of the program.
C6_Step ==
    (/\ last'.op = "splitOff"
     /\ WellFormed(Heap, last'.list)
     /\ last'.arg <= len(Heap, last'.list)) =>
        LET l == last'.list
            at == last'.arg
            r == last'.ret
        IN  /\ ~last'.threw
            /\ r # l
            /\ IterElems(Heap', r) = DropSeq(Walk(Heap, l), at)
            /\ IterElems(Heap', l) = TakeSeq(Walk(Heap, l), at)
            /\ len(Heap', l) = at
            /\ Walk(Heap', l) = TakeSeq(Walk(Heap, l), at)
            /\ PopFrontAll(Heap', l, MaxNodes + 1) = TakeSeq(Walk(Heap, l), at)

\* C6: for a list of length len and 0 <= at <= len, splitOff(at) returns a
\* new list, distinct from the receiver, that holds the former elements at
\* positions [at, len) in order, and the receiver then holds the former
\* elements at positions [0, at): its len() is at, and neither next() on its
\* iterator, nor a traversal of its chain (contains, for-of), nor popping it
\* until it is empty reaches an element of the returned part.
C6_SplitOff == [][C6_Step]_vars

\* What C7 asks of one step of the program.
C7_Step ==
    (/\ last.op = "splitOff"
     /\ ~last.threw
     /\ last'.op = "append"
     /\ last'.list = last.list
     /\ last'.arg = last.ret) =>
        /\ Walk(Heap', last.list) = last.was
        /\ IterElems(Heap', last.list) = last.was
        /\ len(Heap', last.list) = Len(last.was)

\* C7: R = L.splitOff(at) followed by L.append(R) leaves L with the element
\* sequence and the length it had before the split.
C7_SplitOffAppend == [][C7_Step]_vars

\* ------------------------------------------------------------- remove

\* The sequence s without its element at zero-based position at.
RemoveAt(s, at) == SubSeq(s, 1, at) \o SubSeq(s, at + 2, Len(s))

\* What C8 asks of one step of the program.
C8_Step ==
    (/\ last'.op = "remove"
     /\ last'.arg < len(Heap, last'.list)) =>
        LET l == last'.list
            at == last'.arg
        IN  /\ ~last'.threw
            /\ last'.ret = Walk(Heap, l)[at + 1]
            /\ Walk(Heap', l) = RemoveAt(Walk(Heap, l), at)
            /\ IterElems(Heap', l) = RemoveAt(Walk(Heap, l), at)
            /\ len(Heap', l) = len(Heap, l) - 1

\* C8: for a list of length len and 0 <= at < len, remove(at) returns the
\* element that was at position at, and the list then holds the remaining
\* elements in their order, with len() one less.
C8_Remove == [][C8_Step]_vars

\* What C9 asks of one step of the program.
C9_Step ==
    (\/ last'.op = "splitOff" /\ last'.arg > len(Heap, last'.list)
     \/ last'.op = "remove" /\ last'.arg >= len(Heap, last'.list)) =>
        /\ last'.threw
        /\ Heap' = Heap
        /\ cursor' = cursor
        /\ \A l \in Live(Heap) : Walk(Heap', l) = Walk(Heap, l)

\* C9: splitOff(at) with at > len() and remove(at) with at >= len() raise an
\* error and leave every list, every node and the cursor as they were.
C9_OutOfRange == [][C9_Step]_vars

\* A remove at the length of a list of two elements has thrown.
C9_Witness ==
    /\ last.op = "remove"
    /\ last.threw
    /\ last.arg = 2
    /\ len(Heap, last.list) = 2
    /\ Len(Walk(Heap, last.list)) = 2

\* ------------------------------------------------------------- cursor

\* What C10 asks of one step of the program.
C10_Step ==
    LET l == cursor.list
        ns == WalkNodes(Heap, l)
        n == len(Heap, l)
        k == last'.run
    IN  /\ last'.op = "moveNext" =>
            /\ cursor'.list = l
            /\ cursor.curr = Null => cursor'.curr = Heap.head[l]
            /\ cursor.curr # Null => cursor'.curr = Heap.next[cursor.curr]
            /\ last'.ret = current(Heap', cursor')
            /\ (k >= 1 /\ k <= n) =>
                (cursor'.curr = ns[k] /\ last'.ret = Walk(Heap, l)[k])
            /\ k = n + 1 => (cursor'.curr = Null /\ last'.ret = Null)
            /\ k <= n + 1
        /\ last'.op = "movePrev" =>
            /\ cursor'.list = l
            /\ cursor.curr = Null => cursor'.curr = Heap.tail[l]
            /\ cursor.curr # Null => cursor'.curr = Heap.prev[cursor.curr]
            /\ last'.ret = current(Heap', cursor')
            /\ (k >= 1 /\ k <= n) =>
                (cursor'.curr = ns[n - k + 1] /\ last'.ret = Walk(Heap, l)[n - k + 1])
            /\ k = n + 1 => (cursor'.curr = Null /\ last'.ret = Null)
            /\ k <= n + 1
        /\ last'.op \in {"moveNext", "movePrev"} => Heap' = Heap

\* C10: from Ghost, moveNext makes head current (Ghost again on an empty
\* list) and movePrev makes tail current; from a node, moveNext makes its
\* next current and movePrev its prev, Ghost when there is none. Hence the
\* k-th of a run of moveNext calls from Ghost on a list of length n is at the
\* k-th element from head for k <= n and at Ghost for k = n + 1, and the k-th
\* of a run of movePrev calls is at the k-th element from tail, then Ghost.
C10_CursorMoves == [][C10_Step]_vars

\* A run of movePrev calls from Ghost has gone through a list of three
\* elements and is back at Ghost.
C10_Witness ==
    /\ last.op = "movePrev"
    /\ cursor.list # Null
    /\ len(Heap, cursor.list) = 3
    /\ last.run = 4
    /\ cursor.curr = Null

\* What C11 asks of one step of the program.
C11_Step ==
    last'.op = "removeCurrent" =>
        LET l == cursor.list
            ns == WalkNodes(Heap, l)
        IN  IF cursor.curr = Null
            THEN /\ last'.ret = Null
                 /\ Heap' = Heap
                 /\ cursor' = cursor
            ELSE \E i \in 1..Len(ns) :
                 /\ ns[i] = cursor.curr
                 /\ WalkNodes(Heap', l) = RemoveAt(ns, i - 1)
                 /\ Walk(Heap', l) = RemoveAt(Walk(Heap, l), i - 1)
                 /\ IterElems(Heap', l) = RemoveAt(Walk(Heap, l), i - 1)
                 /\ len(Heap', l) = len(Heap, l) - 1
                 /\ cursor'.curr = Heap.next[cursor.curr]
                 /\ cursor'.list = l
                 /\ last'.ret = Heap.element[cursor.curr]
                 /\ WellFormed(Heap', l)

\* C11: Cursor.removeCurrent at a node unlinks exactly that node (the list
\* then holds the other elements in their order and len() is one less), makes
\* the node's former next current (Ghost if it had none) and returns the
\* removed element; at Ghost it returns Absent and leaves the list and the
\* cursor as they were.
C11_RemoveCurrent == [][C11_Step]_vars

\* A removeCurrent has unlinked a node that had a predecessor and a successor:
\* the cursor is on the successor and the list holds two elements.
C11_Witness ==
    /\ last.op = "removeCurrent"
    /\ last.ret # Null
    /\ cursor.curr # Null
    /\ Heap.prev[cursor.curr] # Null
    /\ len(Heap, cursor.list) = 2

\* ------------------------------------------------------- Iter in use

\* The list state, which the calls on an Iter leave alone.
listVars == <<next, prev, element, head, tail, length, nlists, cursor, abs, steps>>

\* list.iter().
IterCreate(l) ==
    /\ l \in Live(Heap)
    /\ iter.list = Null
    /\ iter' = [list |-> l, it |-> IterNew(Heap, l), fwd |-> <<>>, bwd |-> <<>>]
    /\ last' = Op("iter", l, 0, Null, FALSE)
    /\ UNCHANGED <<listVars, pipe, opt>>

\* iter.next().
IterNextCall ==
    /\ iter.list # Null
    /\ LET r == IterNext(Heap, iter.it) IN
        /\ iter' = [iter EXCEPT !.it = r.it,
                                !.fwd = IF r.ret = Null THEN @ ELSE Append(@, iter.it.head)]
        /\ last' = Op("next", iter.list, 0, r.ret, FALSE)
    /\ UNCHANGED <<listVars, pipe, opt>>

\* iter.nextBack().
IterNextBackCall ==
    /\ iter.list # Null
    /\ LET r == IterNextBack(Heap, iter.it) IN
        /\ iter' = [iter EXCEPT !.it = r.it,
                                !.bwd = IF r.ret = Null THEN @ ELSE Append(@, iter.it.tail)]
        /\ last' = Op("nextBack", iter.list, 0, r.ret, FALSE)
    /\ UNCHANGED <<listVars, pipe, opt>>

\* iter.count().
IterCountCall ==
    /\ iter.list # Null
    /\ last' = Op("count", iter.list, 0, IterCount(iter.it), FALSE)
    /\ UNCHANGED <<listVars, iter, pipe, opt>>

\* iter.last().
IterLastCall ==
    /\ iter.list # Null
    /\ last' = Op("last", iter.list, 0, IterLast(Heap, iter.it), FALSE)
    /\ UNCHANGED <<listVars, iter, pipe, opt>>

\* The program lets go of its Iter.
IterDrop ==
    /\ iter.list # Null
    /\ iter' = NoIter
    /\ last' = Op("dropIter", iter.list, 0, Null, FALSE)
    /\ UNCHANGED <<listVars, pipe, opt>>

\* A list built by pushes at both ends while no Iter is live, and an Iter over it
\* driven from both ends in any order and asked for its count and its last.
NextIter ==
    \/ \E l \in Lists, x \in Elems : iter.list = Null /\ PushFront(l, x) /\ Plain
    \/ \E l \in Lists, x \in Elems : iter.list = Null /\ PushBack(l, x) /\ Plain
    \/ \E l \in Lists : IterCreate(l)
    \/ IterNextCall
    \/ IterNextBackCall
    \/ IterCountCall
    \/ IterLastCall
    \/ IterDrop

SpecIter == Init /\ [][NextIter]_vars

\* The sequence s in reverse order.
Reverse(s) == [i \in 1..Len(s) |-> s[Len(s) - i + 1]]

\* What C12 asks of one step of the program.
C12_Step ==
    LET l == iter'.list
        ns == WalkNodes(Heap', l)
        n == Len(ns)
        k == Len(iter'.fwd)
        j == Len(iter'.bwd)
    IN  l # Null =>
        /\ k + j <= n
        /\ iter'.fwd = SubSeq(ns, 1, k)
        /\ iter'.bwd = Reverse(SubSeq(ns, n - j + 1, n))
        /\ sizeHint(iter'.it) = <<n - k - j, n - k - j>>
        /\ last'.op = "next" =>
            /\ last'.ret = Null <=> Len(iter.fwd) + Len(iter.bwd) = n
            /\ last'.ret # Null => (k = Len(iter.fwd) + 1 /\ last'.ret = Heap.element[ns[k]])
            /\ last'.ret = Null => iter' = iter
        /\ last'.op = "nextBack" =>
            /\ last'.ret = Null <=> Len(iter.fwd) + Len(iter.bwd) = n
            /\ last'.ret # Null =>
                (j = Len(iter.bwd) + 1 /\ last'.ret = Heap.element[ns[n - j + 1]])
            /\ last'.ret = Null => iter' = iter

\* C12: for an Iter over a list of length n that is not mutated afterwards,
\* under every interleaving of next() and nextBack(): what next() has yielded
\* is a prefix of the list's nodes and what nextBack() has yielded is a
\* disjoint suffix in reverse (no node twice, n elements in total),
\* sizeHint() is [r, r] for the r nodes not yet yielded, and a call returns
\* Absent exactly when r is 0, changing nothing.
C12_IterBothEnds == [][C12_Step]_vars

\* An Iter over three elements has yielded from both ends, is exhausted, and
\* its last nextBack() call has returned Absent.
C12_Witness ==
    /\ iter.list # Null
    /\ len(Heap, iter.list) = 3
    /\ Len(iter.fwd) >= 1
    /\ Len(iter.bwd) >= 1
    /\ Len(iter.fwd) + Len(iter.bwd) = 3
    /\ last.op = "nextBack"
    /\ last.ret = Null

\* What C13 asks of one step of the program, for the list's Iter.
C13_Step ==
    LET l == iter.list
        ns == WalkNodes(Heap, l)
        n == Len(ns)
        r == n - Len(iter.fwd) - Len(iter.bwd)
    IN  /\ last'.op = "count" =>
            /\ last'.ret = r
            /\ IterNext(Heap', iter'.it).ret = Null
        /\ last'.op = "last" =>
            /\ last'.ret = IF r = 0 THEN Null ELSE Heap.element[ns[n - Len(iter.bwd)]]
            /\ IterNext(Heap', iter'.it).ret = Null

\* C13: count() and last() consume the iterator they are called on, the
\* list's Iter included: count() returns the number of items not yet yielded,
\* last() returns the final item not yet yielded (Absent if there is none),
\* and after either call next() returns Absent.
C13_CountLastConsume == [][C13_Step]_vars

\* ------------------------------------------------- StdIterator, Chain

MaxItems == 2
MaxCalls == 6

\* The sequences over S of length at most n.
SeqsUpTo(S, n) == UNION {[1..k -> S] : k \in 0..n}

\* The stateful iterators a Chain is built over: items and the number of them
\* already yielded. for-of over an iterator of kind "next" pulls it through
\* next() (StdIterator's own [Symbol.iterator]); for-of over one of kind
\* "walk" reads on from the iterator's head and leaves the iterator where it
\* is (the [Symbol.iterator] of the list's Iter).
StdKinds == {"next", "walk"}
StdSources ==
    {[kind |-> k, items |-> s, index |-> i] :
        k \in StdKinds, s \in SeqsUpTo(Elems, MaxItems), i \in 0..MaxItems}

\* The items an iterator has not yielded yet.
Remaining(src) == SubSeq(src.items, src.index + 1, Len(src.items))

\* next() of a stateful iterator: the iterator afterwards, the value returned.
StdNext(src) ==
    IF src.index < Len(src.items)
    THEN [src |-> [src EXCEPT !.index = src.index + 1], ret |-> src.items[src.index + 1]]
    ELSE [src |-> src, ret |-> Null]

\* The first round of for (const item of src): the item the loop body gets
\* (Null when the loop ends at once) and the iterator afterwards.
ForOfFirst(src) ==
    IF src.kind = "next" THEN StdNext(src)
    ELSE [src |-> src,
          ret |-> IF src.index < Len(src.items) THEN src.items[src.index + 1] ELSE Null]

\* Chain.next(): this[Symbol.iterator]().next().value, a fresh generator that
\* runs to its first yield (the first item of a, else the first item of b) or
\* to its return null.
StdChainNext(a, b) ==
    LET ra == ForOfFirst(a) IN
    IF ra.ret # Null THEN [a |-> ra.src, b |-> b, ret |-> ra.ret]
    ELSE LET rb == ForOfFirst(b) IN [a |-> ra.src, b |-> rb.src, ret |-> rb.ret]

\* a.chain(b) over any two stateful iterators, each with some of its items
\* already yielded. a0, b0: the two iterators as the chain got them.
\* out: what the chain's next() calls have returned so far.
InitStdChain ==
    /\ InitList
    /\ opt = NoOpt
    /\ \E a, b \in StdSources :
        /\ a.index <= Len(a.items)
        /\ b.index <= Len(b.items)
        /\ pipe = [kind |-> "StdChain", a |-> a, b |-> b, a0 |-> a, b0 |-> b, out |-> <<>>]

\* chain.next().
StdChainNextCall ==
    /\ pipe.kind = "StdChain"
    /\ Len(pipe.out) < MaxCalls
    /\ LET r == StdChainNext(pipe.a, pipe.b) IN
        /\ pipe' = [pipe EXCEPT !.a = r.a, !.b = r.b, !.out = Append(@, r.ret)]
        /\ last' = Op("Chain.next", Null, 0, r.ret, FALSE)
    /\ UNCHANGED <<listVars, iter, opt>>

SpecStdChain == InitStdChain /\ [][StdChainNextCall]_vars

\* The first n elements of out are those of want, followed by Absent.
YieldsThenAbsent(out, want) ==
    \A i \in 1..Len(out) : out[i] = IF i <= Len(want) THEN want[i] ELSE Null

\* C14: successive next() calls on a.chain(b) return a's remaining items in
\* order, then b's remaining items in order, then Absent on every later call.
C14_StdChain ==
    pipe.kind = "StdChain" =>
        YieldsThenAbsent(pipe.out, Remaining(pipe.a0) \o Remaining(pipe.b0))

\* ------------------------------------------------------- CrabIterator

\* A finite CrabIterator: next() returns Some of each of its items in turn
\* and None from then on. (An Option is written as the value it holds, None
\* as Null.)
CrabSources ==
    {[items |-> s, index |-> i] : s \in SeqsUpTo(Elems, MaxItems), i \in 0..MaxItems}

\* next() of a finite CrabIterator: the iterator afterwards, the Option returned.
CrabNext(src) ==
    IF src.index < Len(src.items)
    THEN [src |-> [src EXCEPT !.index = src.index + 1], ret |-> src.items[src.index + 1]]
    ELSE [src |-> src, ret |-> Null]

\* The closures count() and last() hand to fold, and their initial values:
\* (count, _) => count + 1 from 0, (_, item) => Some(item) from None().
FoldFn(op, accum, item) == IF op = "count" THEN accum + 1 ELSE item
FoldInit(op) == IF op = "count" THEN 0 ELSE Null

\* iter.count() or iter.last() has been called on a finite CrabIterator and
\* is at the first line of fold. src0: the iterator as fold got it.
\* calls: the number of times fold has invoked its closure.
InitFold ==
    /\ InitList
    /\ opt = NoOpt
    /\ \E src \in CrabSources, op \in {"count", "last"} :
        /\ src.index <= Len(src.items)
        /\ pipe = [kind |-> "Fold", op |-> op, src |-> src, src0 |-> src, pc |-> "init",
                   item |-> Null, accum |-> FoldInit(op), calls |-> 0, ret |-> Null]

\* fold: let accum = init; let item = this.next();
FoldBegin ==
    /\ pipe.kind = "Fold"
    /\ pipe.pc = "init"
    /\ LET r == CrabNext(pipe.src) IN
        pipe' = [pipe EXCEPT !.src = r.src, !.item = r.ret, !.pc = "while"]
    /\ UNCHANGED <<listVars, iter, opt, last>>

\* fold: while (item.isSome()) { accum = f(accum, item.unwrap()); }
\* one round of the loop, which assigns accum only.
FoldRound ==
    /\ pipe.kind = "Fold"
    /\ pipe.pc = "while"
    /\ pipe.item # Null
    /\ pipe.calls < MaxCalls
    /\ pipe' = [pipe EXCEPT !.accum = FoldFn(pipe.op, @, pipe.item), !.calls = @ + 1]
    /\ UNCHANGED <<listVars, iter, opt, last>>

\* fold: the loop condition is false; return accum.
FoldReturn ==
    /\ pipe.kind = "Fold"
    /\ pipe.pc = "while"
    /\ pipe.item = Null
    /\ pipe' = [pipe EXCEPT !.pc = "done", !.ret = pipe.accum]
    /\ last' = Op(pipe.op, Null, 0, pipe.accum, FALSE)
    /\ UNCHANGED <<listVars, iter, opt>>

NextFold == FoldBegin \/ FoldRound \/ FoldReturn

SpecFold == InitFold /\ [][NextFold]_vars

\* C15: on a CrabIterator over a finite source of n items, fold invokes its
\* closure once per item, never more than n times, and when it returns it
\* has invoked it n times, so that count() returns n.
C15_FoldOncePerItem ==
    pipe.kind = "Fold" =>
        LET n == Len(Remaining(pipe.src0)) IN
        /\ pipe.calls <= n
        /\ pipe.pc = "done" =>
            /\ pipe.calls = n
            /\ pipe.op = "count" => pipe.ret = n

\* Option.or(optb): this if it is Some, else optb.
Or(this, optb) == IF this # Null THEN this ELSE optb

\* Chain.next(): this.iter1.next().or(this.iter2.next()); the receiver is
\* evaluated first, then the argument, then or.
CrabChainNext(a, b) ==
    LET ra == CrabNext(a)
        rb == CrabNext(b)
    IN  [a |-> ra.src, b |-> rb.src, ret |-> Or(ra.ret, rb.ret)]

\* a.chain(b) over two finite CrabIterators, each with some of its items
\* already yielded.
InitCrabChain ==
    /\ InitList
    /\ opt = NoOpt
    /\ \E a, b \in CrabSources :
        /\ a.index <= Len(a.items)
        /\ b.index <= Len(b.items)
        /\ pipe = [kind |-> "CrabChain", a |-> a, b |-> b, a0 |-> a, b0 |-> b, out |-> <<>>]

\* chain.next().
CrabChainNextCall ==
    /\ pipe.kind = "CrabChain"
    /\ Len(pipe.out) < MaxCalls
    /\ LET r == CrabChainNext(pipe.a, pipe.b) IN
        /\ pipe' = [pipe EXCEPT !.a = r.a, !.b = r.b, !.out = Append(@, r.ret)]
        /\ last' = Op("Chain.next", Null, 0, r.ret, FALSE)
    /\ UNCHANGED <<listVars, iter, opt>>

SpecCrabChain == InitCrabChain /\ [][CrabChainNextCall]_vars

\* C16: the next() calls of Chain(a, b) yield the items of a in order, then
\* the items of b in order, then Absent (as many items as a and b have
\* together), and b is not pulled while a still yields: as long as the chain
\* has yielded no more than a's items, b is as it was.
C16_CrabChain ==
    pipe.kind = "CrabChain" =>
        /\ YieldsThenAbsent(pipe.out, Remaining(pipe.a0) \o Remaining(pipe.b0))
        /\ Len(pipe.out) <= Len(Remaining(pipe.a0)) => pipe.b = pipe.b0

\* ------------------------------------------------------ Take, Filter

\* The smaller of two numbers.
Min(x, y) == IF x <= y THEN x ELSE y

\* Take.next that goes on pulling upstream when its counter is zero.
TakeNext_PullAtZero(src, n) ==
    LET r == CrabNext(src) IN
    [src |-> r.src, n |-> IF n = 0 THEN 0 ELSE n - 1, ret |-> r.ret]

\* Take.next(): if (this.n === 0) return None(); this.n--; return
\* this.iter.next(). The upstream and the counter afterwards, the Option
\* returned.
TakeNext(src, n) ==
    IF n = 0 THEN [src |-> src, n |-> n, ret |-> Null]
    ELSE LET r == CrabNext(src) IN [src |-> r.src, n |-> n - 1, ret |-> r.ret]

\* upstream.take(k) over a finite CrabIterator, for k from 0 to one more
\* than the upstream can hold.
InitTake ==
    /\ InitList
    /\ opt = NoOpt
    /\ \E src \in CrabSources, k \in 0..(MaxItems + 1) :
        /\ src.index <= Len(src.items)
        /\ pipe = [kind |-> "Take", src |-> src, src0 |-> src, n |-> k, k |-> k, out |-> <<>>]

\* take.next().
TakeNextCall ==
    /\ pipe.kind = "Take"
    /\ Len(pipe.out) < MaxCalls
    /\ LET r == TakeNext(pipe.src, pipe.n) IN
        /\ pipe' = [pipe EXCEPT !.src = r.src, !.n = r.n, !.out = Append(@, r.ret)]
        /\ last' = Op("Take.next", Null, 0, r.ret, FALSE)
    /\ UNCHANGED <<listVars, iter, opt>>

SpecTake == InitTake /\ [][TakeNextCall]_vars

\* What C17 asks of one step of the program.
C17_Step ==
    pipe'.kind = "Take" =>
        LET rem == Remaining(pipe.src0)
            m == Min(pipe.k, Len(rem))
        IN  /\ YieldsThenAbsent(pipe'.out, TakeSeq(rem, m))
            /\ pipe'.src.index = pipe.src0.index + Min(Len(pipe'.out), m)
            /\ pipe.n = 0 => (last'.ret = Null /\ pipe'.src = pipe.src)

\* C17: Take(k) over an upstream with n remaining items yields the upstream's
\* first min(k, n) items in order and then Absent, pulling no more than those
\* from upstream; once its counter is zero it returns Absent and leaves the
\* upstream as it is.
C17_Take == [][C17_Step]_vars

\* take(1) over an upstream of two items has yielded the first, then Absent,
\* and the upstream still has its second item.
C17_Witness ==
    /\ pipe.kind = "Take"
    /\ pipe.k = 1
    /\ Len(Remaining(pipe.src0)) = 2
    /\ Len(pipe.out) >= 2
    /\ pipe.out[1] # Null
    /\ pipe.out[2] = Null
    /\ Len(Remaining(pipe.src)) = 1

\* The predicates a Filter is given, each as the set of items it holds for.
Predicates == SUBSET Elems

RECURSIVE FilterNext(_, _)

\* Filter.next that gives up when the first item it pulls fails the predicate.
FilterNext_Once(src, pred) ==
    LET r == CrabNext(src) IN
    IF r.ret = Null \/ r.ret \in pred THEN r ELSE [src |-> r.src, ret |-> Null]

\* Filter.next(): pull an item; None if there is none; the item if the
\* predicate holds for it; else this.next() again.
FilterNext(src, pred) ==
    LET r == CrabNext(src) IN
    IF r.ret = Null THEN [src |-> r.src, ret |-> Null]
    ELSE IF r.ret \in pred THEN r
    ELSE FilterNext(r.src, pred)

\* upstream.filter(pred) over a finite CrabIterator.
InitFilter ==
    /\ InitList
    /\ opt = NoOpt
    /\ \E src \in CrabSources, pred \in Predicates :
        /\ src.index <= Len(src.items)
        /\ pipe = [kind |-> "Filter", src |-> src, src0 |-> src, pred |-> pred, out |-> <<>>]

\* filter.next().
FilterNextCall ==
    /\ pipe.kind = "Filter"
    /\ Len(pipe.out) < MaxCalls
    /\ LET r == FilterNext(pipe.src, pipe.pred) IN
        /\ pipe' = [pipe EXCEPT !.src = r.src, !.out = Append(@, r.ret)]
        /\ last' = Op("Filter.next", Null, 0, r.ret, FALSE)
    /\ UNCHANGED <<listVars, iter, opt>>

SpecFilter == InitFilter /\ [][FilterNextCall]_vars

\* The items of s for which the predicate holds, in order.
Matching(s, pred) == LET Holds(x) == x \in pred IN SelectSeq(s, Holds)

\* What C18 asks of one step of the program.
C18_Step ==
    pipe'.kind = "Filter" =>
        LET want == Matching(Remaining(pipe.src0), pipe.pred) IN
        /\ YieldsThenAbsent(pipe'.out, want)
        /\ last'.ret = Null => Remaining(pipe'.src) = <<>>
        /\ last'.ret # Null =>
            /\ last'.ret \in pipe.pred
            /\ pipe'.src.items[pipe'.src.index] = last'.ret
            /\ Matching(Remaining(pipe'.src), pipe.pred) = DropSeq(want, Len(pipe'.out))

\* C18: Filter(pred) yields exactly the upstream items for which pred holds,
\* in upstream order, pulling upstream within one next() call up to the
\* first such item and no further, and returns Absent only when upstream is
\* exhausted.
C18_Filter == [][C18_Step]_vars

\* Filtering [1, 2] for the even items has yielded 2, skipping 1 within the
\* same call, and then Absent.
C18_Witness ==
    /\ pipe.kind = "Filter"
    /\ pipe.pred = {2}
    /\ Remaining(pipe.src0) = <<1, 2>>
    /\ pipe.out = <<2, Null>>

\* ------------------------------------------------------------- Option

MaxOpts == 3

\* The Option objects the program holds, and what an Option can wrap: a
\* value, or null (Null stands for null and undefined, which isSome, map and
\* replace treat alike).
Opts == 1..MaxOpts
Wrapped == Elems \cup {Null}

\* Option.isSome(), Option.isNone(), on the wrapped value.
isSome(value) == value # Null
isNone(value) == ~isSome(value)

\* None() and Some(value): the value the new Option wraps.
None == Null
Some(value) == value

\* Option.insert(value): the wrapped value afterwards, the value returned.
insert(this, value) == [value |-> value, ret |-> value]

\* Option.getOrInsert(value).
getOrInsert(this, value) ==
    LET v == IF isNone(this) THEN value ELSE this IN [value |-> v, ret |-> v]

\* Option.take(): the wrapped value afterwards, the value the returned Option
\* wraps.
take(this) ==
    IF isSome(this) THEN [value |-> Null, ret |-> Some(this)]
    ELSE [value |-> this, ret |-> None]

\* replace that returns an Option of the new value.
replace_ReturnNew(this, newValue) == [value |-> newValue, ret |-> Some(newValue)]

\* Option.replace(newValue).
replace(this, newValue) ==
    LET oldValue == this IN
    [value |-> newValue, ret |-> IF oldValue = Null THEN None ELSE Some(oldValue)]

\* The same four operations on an abstract optional slot: <<>> when Absent,
\* <<v>> when Present(v). ret is the value or the slot returned.
AbsInsert(slot, v) == [slot |-> <<v>>, ret |-> v]
AbsGetOrInsert(slot, v) ==
    IF slot = <<>> THEN [slot |-> <<v>>, ret |-> v] ELSE [slot |-> slot, ret |-> slot[1]]
AbsTake(slot) == [slot |-> <<>>, ret |-> slot]
AbsReplace(slot, v) == [slot |-> <<v>>, ret |-> slot]

\* The abstract slot an Option wrapping `value` stands for.
SlotOf(value) == IF value = Null THEN <<>> ELSE <<value>>

\* Each Option object is None() or Some(v). abs: the abstract slots.
InitOption ==
    /\ InitList
    /\ pipe = NoPipe
    /\ \E w \in [Opts -> Wrapped] :
        opt = [kind |-> "Option", value |-> w, abs |-> [o \in Opts |-> SlotOf(w[o])],
               absret |-> <<>>]

\* o.insert(v).
OptInsert(o, v) ==
    /\ opt.kind = "Option"
    /\ LET r == insert(opt.value[o], v)
           a == AbsInsert(opt.abs[o], v)
       IN  /\ opt' = [opt EXCEPT !.value[o] = r.value, !.abs[o] = a.slot, !.absret = a.ret]
           /\ last' = Op("insert", o, v, r.ret, FALSE)
    /\ UNCHANGED <<listVars, iter, pipe>>

\* o.getOrInsert(v).
OptGetOrInsert(o, v) ==
    /\ opt.kind = "Option"
    /\ LET r == getOrInsert(opt.value[o], v)
           a == AbsGetOrInsert(opt.abs[o], v)
       IN  /\ opt' = [opt EXCEPT !.value[o] = r.value, !.abs[o] = a.slot, !.absret = a.ret]
           /\ last' = Op("getOrInsert", o, v, r.ret, FALSE)
    /\ UNCHANGED <<listVars, iter, pipe>>

\* d = o.take(): the Option returned becomes object d.
OptTake(o, d) ==
    /\ opt.kind = "Option"
    /\ o # d
    /\ LET r == take(opt.value[o])
           a == AbsTake(opt.abs[o])
       IN  /\ opt' = [opt EXCEPT !.value[o] = r.value, !.value[d] = r.ret,
                                 !.abs[o] = a.slot, !.abs[d] = a.ret, !.absret = a.ret]
           /\ last' = Op("take", o, d, r.ret, FALSE)
    /\ UNCHANGED <<listVars, iter, pipe>>

\* d = o.replace(v).
OptReplace(o, d, v) ==
    /\ opt.kind = "Option"
    /\ o # d
    /\ LET r == replace(opt.value[o], v)
           a == AbsReplace(opt.abs[o], v)
       IN  /\ opt' = [opt EXCEPT !.value[o] = r.value, !.value[d] = r.ret,
                                 !.abs[o] = a.slot, !.abs[d] = a.ret, !.absret = a.ret]
           /\ last' = Op("replace", o, v, r.ret, FALSE)
    /\ UNCHANGED <<listVars, iter, pipe>>

NextOption ==
    \/ \E o \in Opts, v \in Elems : OptInsert(o, v)
    \/ \E o \in Opts, v \in Elems : OptGetOrInsert(o, v)
    \/ \E o, d \in Opts : OptTake(o, d)
    \/ \E o, d \in Opts, v \in Elems : OptReplace(o, d, v)

SpecOption == InitOption /\ [][NextOption]_vars

\* What C19 asks of one step of the program.
C19_Step ==
    /\ \A o \in Opts :
        /\ SlotOf(opt'.value[o]) = opt'.abs[o]
        /\ isSome(opt'.value[o]) <=> opt'.abs[o] # <<>>
        /\ isNone(opt'.value[o]) <=> ~isSome(opt'.value[o])
    /\ last'.op \in {"insert", "getOrInsert"} => last'.ret = opt'.absret
    /\ last'.op \in {"take", "replace"} => SlotOf(last'.ret) = opt'.absret
    /\ last'.op = "insert" => (last'.ret = last'.arg /\ opt'.value[last'.list] = last'.arg)
    /\ last'.op = "getOrInsert" =>
        /\ opt'.value[last'.list] =
               IF opt.value[last'.list] = Null THEN last'.arg ELSE opt.value[last'.list]
        /\ last'.ret = opt'.value[last'.list]
    /\ last'.op = "take" =>
        /\ last'.ret = opt.value[last'.list]
        /\ opt'.value[last'.list] = Null
        /\ (last.op = "take" /\ last.list = last'.list) => last'.ret = Null
    /\ last'.op = "replace" =>
        /\ last'.ret = opt.value[last'.list]
        /\ opt'.value[last'.list] = last'.arg

\* C19: under any sequence of insert(v), getOrInsert(v), take() and
\* replace(v) with non-null v, an Option behaves as an abstract optional
\* slot: insert stores v and returns v; getOrInsert stores v only if the slot
\* is Absent and returns the content; take returns an Option of the previous
\* content and leaves the slot Absent (a second take returns Absent); replace
\* returns an Option of the previous content and leaves Present(v); isSome()
\* is true exactly when the slot is non-empty and isNone() is its negation.
C19_OptionSlot == [][C19_Step]_vars

\* A replace on an Option holding 1 has stored 2 and returned an Option of 1.
C19_Witness ==
    /\ opt.kind = "Option"
    /\ last.op = "replace"
    /\ last.arg = 2
    /\ last.ret = 1
    /\ opt.value[last.list] = 2

\* --------------------------------------------------------- Option.map

\* The functions handed to map: any function of a value or null that returns
\* a value or null.
Functions == [Wrapped -> Wrapped]

\* Option.map(f): the value the returned Option wraps.
map(this, f) ==
    IF isSome(this)
    THEN LET value == f[this] IN IF value = Null THEN None ELSE Some(value)
    ELSE None

\* x => g(f(x)).
Compose(g, f) == [x \in Wrapped |-> g[f[x]]]

\* x = Some(v), with two functions f and g at hand. y, z, w: the Options
\* computed so far, named in done.
InitMap ==
    /\ InitList
    /\ pipe = NoPipe
    /\ \E v \in Elems, f, g \in Functions :
        opt = [kind |-> "Map", x |-> Some(v), f |-> f, g |-> g,
               y |-> None, z |-> None, w |-> None, done |-> {}]

\* y = x.map(f).
MapF ==
    /\ opt.kind = "Map"
    /\ "y" \notin opt.done
    /\ opt' = [opt EXCEPT !.y = map(opt.x, opt.f), !.done = @ \cup {"y"}]
    /\ last' = Op("map", Null, 0, map(opt.x, opt.f), FALSE)
    /\ UNCHANGED <<listVars, iter, pipe>>

\* z = y.map(g).
MapG ==
    /\ opt.kind = "Map"
    /\ "y" \in opt.done
    /\ "z" \notin opt.done
    /\ opt' = [opt EXCEPT !.z = map(opt.y, opt.g), !.done = @ \cup {"z"}]
    /\ last' = Op("map", Null, 0, map(opt.y, opt.g), FALSE)
    /\ UNCHANGED <<listVars, iter, pipe>>

\* w = x.map(x => g(f(x))).
MapGF ==
    /\ opt.kind = "Map"
    /\ "w" \notin opt.done
    /\ opt' = [opt EXCEPT !.w = map(opt.x, Compose(opt.g, opt.f)), !.done = @ \cup {"w"}]
    /\ last' = Op("map", Null, 0, map(opt.x, Compose(opt.g, opt.f)), FALSE)
    /\ UNCHANGED <<listVars, iter, pipe>>

NextMap == MapF \/ MapG \/ MapGF

SpecMap == InitMap /\ [][NextMap]_vars

\* C20: for every non-null v and all functions f and g, functions that return
\* null for some inputs included, Some(v).map(f).map(g) equals
\* Some(v).map(x => g(f(x))).
C20_MapComposition ==
    (opt.kind = "Map" /\ {"z", "w"} \subseteq opt.done) => opt.z = opt.w

\* ------------------------------------------ values of Option and Result

\* The values an Option or a Result is given to hold, each with the type the
\* code can tell: null (which stands for undefined too: isSome, isOk and map
\* treat the two alike), a number, a boolean, an instance of Error, an array
\* of two, an Option object and a Result object.
null == [tag |-> "null"]
Num(n) == [tag |-> "number", n |-> n]
Bool(b) == [tag |-> "boolean", b |-> b]
NewError(msg) == [tag |-> "Error", message |-> msg]
NewArray(a, b) == [tag |-> "Array", a |-> a, b |-> b]

\* new Option(value) and new Result(value, error).
NewOption(value) == [tag |-> "Option", value |-> value]
NewResult(value, error) == [tag |-> "Result", value |-> value, error |-> error]

\* The values that are not containers.
Numbers == {Num(n) : n \in Elems}
Scalars == {null} \cup Numbers \cup {NewError("e")}

\* What a method call leaves: the receiver afterwards, and either the value
\* returned or the Error thrown.
Returned(this, ret) == [this |-> this, ret |-> ret, threw |-> FALSE]
Thrown(this, msg) == [this |-> this, ret |-> NewError(msg), threw |-> TRUE]

\* ------------------------------------------------------------- Result

\* Result.isOk(): the value is no Error, not undefined and not null.
isOk(this) == ~(this.value.tag = "Error" \/ this.value = null)

\* Result.isErr().
isErr(this) == ~isOk(this)

\* Ok(value) and Err(value).
Ok(value) == NewResult(value, null)
Err(value) == NewResult(null, value)

\* The Results the two factories make of a scalar.
FactoryResults == {Ok(v) : v \in Scalars} \cup {Err(e) : e \in Scalars}

\* Result.map(op), where opOut is what op returns when it is called.
Result_map(this, opOut) ==
    IF isOk(this) THEN Returned(this, NewResult(opOut, this.error))
    ELSE Returned(this, Err(this.error))

\* Result.mapErr(op).
Result_mapErr(this, opOut) ==
    IF isErr(this) THEN Returned(this, NewResult(this.value, opOut))
    ELSE Returned(this, Ok(this.value))

\* Result.and(res).
Result_and(this, res) ==
    IF isOk(this) THEN Returned(this, res) ELSE Returned(this, Err(this.error))

\* Result.andThen(op), where opOut is the Result op returns.
Result_andThen(this, opOut) ==
    IF isOk(this) THEN Returned(this, opOut) ELSE Returned(this, Err(this.error))

\* Result.or(res).
Result_or(this, res) ==
    IF isErr(this) THEN Returned(this, res)
    ELSE IF this.error = null THEN Returned(this, Ok(this.value))
    ELSE Thrown(this, "called Result.or() on an invalid value")

\* Result.orElse(op).
Result_orElse(this, opOut) ==
    IF isErr(this) THEN Returned(this, opOut) ELSE Returned(this, Ok(this.value))

\* ------------------------------------------- Option, over every value

\* Option.isSome() and Option.isNone() of an Option object.
Option_isSome(this) == ~(this.value = null)
Option_isNone(this) == ~Option_isSome(this)

\* None().
Option_None == NewOption(null)

\* Some(value): throws when value is null or undefined.
Option_Some(value) ==
    IF value = null
    THEN Thrown(null, "Tried to create Some() with a null or undefined value.")
    ELSE Returned(null, NewOption(value))

\* Maybe(value).
Maybe(value) == IF value = null THEN Option_None ELSE Option_Some(value).ret

\* Option.expect(msg).
Option_expect(this, msg) ==
    IF Option_isSome(this) THEN Returned(this, this.value) ELSE Thrown(this, msg)

\* Option.unwrap().
Option_unwrap(this) ==
    IF Option_isSome(this) THEN Returned(this, this.value)
    ELSE Thrown(this, "called Option.unwrap() on a None value")

\* Option.map(f), where fOut is what f returns when it is called.
Option_map(this, fOut) ==
    IF Option_isSome(this)
    THEN IF fOut = null THEN Returned(this, Option_None)
         ELSE Returned(this, Option_Some(fOut).ret)
    ELSE Returned(this, Option_None)

\* Option.okOr(err), and Option.okOrElse(err) with errOut what err returns.
okOr(this, err) ==
    IF Option_isSome(this) THEN Returned(this, Ok(this.value)) ELSE Returned(this, Err(err))
okOrElse(this, errOut) ==
    IF Option_isSome(this) THEN Returned(this, Ok(this.value)) ELSE Returned(this, Err(errOut))

\* Option.andThen(f), where fOut is the Option f returns.
Option_andThen(this, fOut) ==
    IF Option_isSome(this) THEN Returned(this, fOut) ELSE Returned(this, Option_None)

\* Option.filter(predicate), where holds is what the predicate returns.
filter(this, holds) ==
    IF Option_isSome(this) /\ holds THEN Returned(this, this) ELSE Returned(this, Option_None)

\* Option.or(optb).
Option_or(this, optb) ==
    IF Option_isSome(this) THEN Returned(this, this) ELSE Returned(this, optb)

\* Option.orElse(f), where fOut is the Option f returns.
Option_orElse(this, fOut) ==
    IF Option_isSome(this) THEN Returned(this, this) ELSE Returned(this, fOut)

\* Option.xor(optb).
xor(this, optb) ==
    IF Option_isSome(this) /\ Option_isSome(optb) THEN Returned(this, Option_None)
    ELSE IF Option_isSome(this) THEN Returned(this, this)
    ELSE IF Option_isSome(optb) THEN Returned(this, optb)
    ELSE Returned(this, Option_None)

\* Option.insert(value).
Option_insert(this, value) == Returned(NewOption(value), value)

\* Option.getOrInsert(value).
Option_getOrInsert(this, value) ==
    LET after == IF Option_isNone(this) THEN NewOption(value) ELSE this
    IN  Returned(after, after.value)

\* Option.take().
Option_take(this) ==
    IF Option_isSome(this)
    THEN LET made == Option_Some(this.value) IN
         [this |-> NewOption(null), ret |-> made.ret, threw |-> made.threw]
    ELSE Returned(this, Option_None)

\* Option.replace(newValue).
Option_replace(this, newValue) ==
    LET oldValue == this.value IN
    IF oldValue = null THEN Returned(NewOption(newValue), Option_None)
    ELSE LET made == Option_Some(oldValue) IN
         [this |-> NewOption(newValue), ret |-> made.ret, threw |-> made.threw]

\* Option.contains(x): this.value === x, for a primitive x.
contains(this, x) ==
    IF Option_isSome(this) THEN Returned(this, Bool(this.value = x))
    ELSE Returned(this, Bool(FALSE))

\* Option.zip(other).
zip(this, other) ==
    IF Option_isSome(this) /\ Option_isSome(other)
    THEN LET made == Option_Some(NewArray(this.value, other.value)) IN
         [this |-> this, ret |-> made.ret, threw |-> made.threw]
    ELSE Returned(this, Option_None)

\* Option.zipWith(other, f), where fOut is what f returns.
zipWith(this, other, fOut) ==
    IF Option_isSome(this) /\ Option_isSome(other) THEN Returned(this, Maybe(fOut))
    ELSE Returned(this, Option_None)

\* Option.unzip(): of an array of two, Some of each of the two; Some throws
\* on the first of them that is null.
unzip(this) ==
    IF Option_isSome(this) /\ this.value.tag = "Array"
    THEN LET first == Option_Some(this.value.a)
             second == Option_Some(this.value.b)
         IN  IF first.threw THEN [this |-> this, ret |-> first.ret, threw |-> TRUE]
             ELSE IF second.threw THEN [this |-> this, ret |-> second.ret, threw |-> TRUE]
             ELSE Returned(this, NewArray(first.ret, second.ret))
    ELSE Returned(this, NewArray(Option_None, Option_None))

\* Option.transpose(): the wrapped value is taken for a Result when it is an
\* object with map, isOk and isErr; value.map(Some) builds
\* new Result(Some(value.value), value.error).
transpose(this) ==
    IF Option_isSome(this)
    THEN IF this.value.tag = "Result"
         THEN IF isOk(this.value)
              THEN LET made == Option_Some(this.value.value) IN
                   [this |-> this, threw |-> made.threw,
                    ret |-> IF made.threw THEN made.ret
                            ELSE Result_map(this.value, made.ret).ret]
              ELSE Returned(this, this.value)
         ELSE Thrown(this, "Value is not a Result")
    ELSE Returned(this, Ok(Option_None))

\* The number JavaScript compares a value as: null as 0, a number as itself,
\* an object as its string form, which is no number for any of the objects
\* here (<<>> stands for NaN).
ToNumber(v) ==
    IF v = null THEN <<0>>
    ELSE IF v.tag = "number" THEN <<v.n>>
    ELSE <<>>

\* a < b and a <= b of JavaScript, where b is null or a number: false when
\* either side is NaN.
JsLess(a, b) ==
    ToNumber(a) # <<>> /\ ToNumber(b) # <<>> /\ ToNumber(a)[1] < ToNumber(b)[1]
JsLessEq(a, b) ==
    ToNumber(a) # <<>> /\ ToNumber(b) # <<>> /\ ToNumber(a)[1] <= ToNumber(b)[1]

\* Option.eq, ne, lt, le, gt, ge, against an Option of null or of a number.
eq(this, other) == Returned(this, Bool(this.value = other.value))
ne(this, other) == Returned(this, Bool(~eq(this, other).ret.b))
lt(this, other) == Returned(this, Bool(JsLess(this.value, other.value)))
le(this, other) == Returned(this, Bool(JsLessEq(this.value, other.value)))
gt(this, other) == Returned(this, Bool(JsLess(other.value, this.value)))
ge(this, other) == Returned(this, Bool(JsLessEq(other.value, this.value)))

\* The arrays of two an Option is given to wrap, and all it is given to wrap.
Arrays == {NewArray(a, b) : a, b \in {null, Num(1)}}
Values == Scalars \cup FactoryResults \cup Arrays

\* The Options handed to a method as its argument or returned by a callback:
\* None() and Some of a number.
Others == {NewOption(v) : v \in {null} \cup Numbers}

\* An Option made by None() or by Some(v), for any value v that is not null,
\* and a second Option to hand to the methods that take one. was: the
\* receiver as it was before the last call.
InitOptionOps ==
    /\ InitList
    /\ pipe = NoPipe
    /\ \E v \in Values, other \in Others :
        opt = [kind |-> "OptionOps", this |-> NewOption(v), other |-> other,
               was |-> NewOption(v)]

\* One call of a method on the Option: r is what the method leaves.
OptionDoes(name, r) ==
    /\ opt.kind = "OptionOps"
    /\ opt' = [opt EXCEPT !.this = r.this, !.was = opt.this]
    /\ last' = Op(name, Null, 0, r.ret, r.threw)
    /\ UNCHANGED <<listVars, iter, pipe>>

\* Any method call on the Option, with callbacks that return normally.
NextOptionOps ==
    \/ OptionDoes("expect", Option_expect(opt.this, "msg"))
    \/ OptionDoes("unwrap", Option_unwrap(opt.this))
    \/ \E y \in Scalars : OptionDoes("map", Option_map(opt.this, y))
    \/ \E e \in Scalars : OptionDoes("okOr", okOr(opt.this, e))
    \/ \E e \in Scalars : OptionDoes("okOrElse", okOrElse(opt.this, e))
    \/ \E o \in Others : OptionDoes("andThen", Option_andThen(opt.this, o))
    \/ \E b \in BOOLEAN : OptionDoes("filter", filter(opt.this, b))
    \/ OptionDoes("or", Option_or(opt.this, opt.other))
    \/ \E o \in Others : OptionDoes("orElse", Option_orElse(opt.this, o))
    \/ OptionDoes("xor", xor(opt.this, opt.other))
    \/ \E v \in Numbers : OptionDoes("insert", Option_insert(opt.this, v))
    \/ \E v \in Numbers : OptionDoes("getOrInsert", Option_getOrInsert(opt.this, v))
    \/ OptionDoes("take", Option_take(opt.this))
    \/ \E v \in Numbers : OptionDoes("replace", Option_replace(opt.this, v))
    \/ \E x \in Numbers : OptionDoes("contains", contains(opt.this, x))
    \/ OptionDoes("zip", zip(opt.this, opt.other))
    \/ \E y \in Scalars : OptionDoes("zipWith", zipWith(opt.this, opt.other, y))
    \/ OptionDoes("unzip", unzip(opt.this))
    \/ OptionDoes("transpose", transpose(opt.this))
    \/ OptionDoes("eq", eq(opt.this, opt.other))
    \/ OptionDoes("ne", ne(opt.this, opt.other))
    \/ OptionDoes("lt", lt(opt.this, opt.other))
    \/ OptionDoes("le", le(opt.this, opt.other))
    \/ OptionDoes("gt", gt(opt.this, opt.other))
    \/ OptionDoes("ge", ge(opt.this, opt.other))

SpecOptionOps == InitOptionOps /\ [][NextOptionOps]_vars

\* C21: among Option's operations only unwrap and expect fail, and only on
\* Absent, expect raising with the caller's message; every other operation
\* returns normally for every Option, Present or Absent, whatever it wraps,
\* when the callbacks return normally.
C21_OnlyUnwrapExpectFail ==
    (opt.kind = "OptionOps" /\ last.threw) =>
        /\ last.op \in {"expect", "unwrap"}
        /\ Option_isNone(opt.was)
        /\ last.op = "expect" => last.ret = NewError("msg")

\* C22: transpose maps None() to Ok(None()), Some(Ok(v)) to Ok(Some(v)) and
\* Some(Err(e)) to Err(e), for every v and e that is not null, and the
\* result reports isOk() in the first two cases and isErr() in the third.
C22_Transpose ==
    (opt.kind = "OptionOps" /\ last.op = "transpose") =>
        /\ opt.was = Option_None =>
            (~last.threw /\ last.ret = Ok(Option_None) /\ isOk(last.ret))
        /\ \A v \in Scalars \ {null} :
            /\ opt.was = NewOption(Ok(v)) =>
                (~last.threw /\ last.ret = Ok(NewOption(v)) /\ isOk(last.ret))
            /\ opt.was = NewOption(Err(v)) =>
                (~last.threw /\ last.ret = Err(v) /\ isErr(last.ret))

\* ------------------------------------------------------ Result in use

\* The number of methods chained on a Result.
MaxChain == 3

\* No Result has been built yet. made, arg: the factory that built the
\* Result r and its argument. chain: the methods called since, each on the
\* Result the one before returned.
InitResult ==
    /\ InitList
    /\ pipe = NoPipe
    /\ opt = [kind |-> "Result", made |-> "none", arg |-> null, r |-> null, chain |-> <<>>]

\* r = Ok(v) and r = Err(v), for any scalar v.
ResOk(v) ==
    /\ opt.kind = "Result"
    /\ opt.made = "none"
    /\ opt' = [opt EXCEPT !.made = "Ok", !.arg = v, !.r = Ok(v)]
    /\ last' = Op("Ok", Null, 0, Ok(v), FALSE)
    /\ UNCHANGED <<listVars, iter, pipe>>
ResErr(v) ==
    /\ opt.kind = "Result"
    /\ opt.made = "none"
    /\ opt' = [opt EXCEPT !.made = "Err", !.arg = v, !.r = Err(v)]
    /\ last' = Op("Err", Null, 0, Err(v), FALSE)
    /\ UNCHANGED <<listVars, iter, pipe>>

\* One method chained on the Result: r is what the method leaves.
ResultDoes(name, r) ==
    /\ opt.kind = "Result"
    /\ opt.made # "none"
    /\ Len(opt.chain) < MaxChain
    /\ opt' = [opt EXCEPT !.r = IF r.threw THEN @ ELSE r.ret, !.chain = Append(@, name)]
    /\ last' = Op(name, Null, 0, r.ret, r.threw)
    /\ UNCHANGED <<listVars, iter, pipe>>

\* Ok, Err and any method call on the Result; a callback returns a scalar
\* (map, mapErr) or a Result of one of the factories (andThen, orElse).
NextResult ==
    \/ \E v \in Scalars : ResOk(v)
    \/ \E v \in Scalars : ResErr(v)
    \/ \E y \in Scalars : ResultDoes("map", Result_map(opt.r, y))
    \/ \E y \in Scalars : ResultDoes("mapErr", Result_mapErr(opt.r, y))
    \/ \E res \in FactoryResults : ResultDoes("and", Result_and(opt.r, res))
    \/ \E res \in FactoryResults : ResultDoes("andThen", Result_andThen(opt.r, res))
    \/ \E res \in FactoryResults : ResultDoes("or", Result_or(opt.r, res))
    \/ \E res \in FactoryResults : ResultDoes("orElse", Result_orElse(opt.r, res))

SpecResult == InitResult /\ [][NextResult]_vars

\* C23: the variant of a Result is fixed by the factory that built it: for
\* every value v, Ok(v).isOk() is true and Ok(v).isErr() is false, and for
\* every e, Err(e).isErr() is true and Err(e).isOk() is false, whatever kind
\* of value v or e is.
C23_VariantByFactory ==
    (opt.kind = "Result" /\ opt.chain = <<>>) =>
        /\ opt.made = "Ok" => (isOk(opt.r) /\ ~isErr(opt.r))
        /\ opt.made = "Err" => (isErr(opt.r) /\ ~isOk(opt.r))

\* C24: a Result reached from Ok(v) or Err(e) through any chain of map,
\* mapErr, and, andThen, or and orElse never holds a value that is not null
\* and an error that is not null at the same time.
C24_OneSide ==
    (opt.kind = "Result" /\ opt.made # "none") =>
        ~(opt.r.value # null /\ opt.r.error # null)

\* -------------------------------------------------------------- Range

\* The largest start and end a Range is made with.
MaxRange == 3

\* RangeExclusive.next(): the closure's value and exhausted afterwards, and
\* the Option returned.
RangeNext(r) ==
    IF r.value < r.end
    THEN [r |-> [r EXCEPT !.value = r.value + 1], ret |-> Option_Some(Num(r.value)).ret]
    ELSE [r |-> [r EXCEPT !.exhausted = TRUE], ret |-> Option_Some(Num(r.value)).ret]

\* Range(start, end): let exhausted = false; let value = start.
\* out: the Options its next() calls have returned.
InitRange ==
    /\ InitList
    /\ opt = NoOpt
    /\ \E start, end \in 0..MaxRange :
        pipe = [kind |-> "Range", start |-> start, end |-> end, value |-> start,
                exhausted |-> FALSE, out |-> <<>>]

\* range.next().
RangeNextCall ==
    /\ pipe.kind = "Range"
    /\ Len(pipe.out) < MaxCalls
    /\ LET r == RangeNext(pipe) IN
        /\ pipe' = [r.r EXCEPT !.out = Append(@, r.ret)]
        /\ last' = Op("Range.next", Null, 0, r.ret, FALSE)
    /\ UNCHANGED <<listVars, iter, opt>>

SpecRange == InitRange /\ [][RangeNextCall]_vars

\* C25: the next() calls of Range(start, end) yield start, start + 1, ...,
\* end - 1 in order (nothing when start >= end) and Absent on every later
\* call; end and larger numbers are never yielded.
C25_RangeHalfOpen ==
    pipe.kind = "Range" =>
        LET n == IF pipe.start < pipe.end THEN pipe.end - pipe.start ELSE 0 IN
        \A i \in 1..Len(pipe.out) :
            pipe.out[i] = IF i <= n THEN NewOption(Num(pipe.start + i - 1)) ELSE Option_None

\* ------------------------------------------------------ advanceBy, nth

\* Result.ok(): the value the returned Option wraps.
ok(this) ==
    IF isOk(this)
    THEN IF this.value = null THEN Option_None ELSE Option_Some(this.value).ret
    ELSE Option_None

RECURSIVE AdvanceLoop(_, _, _)

\* The loop of advanceBy from round i on: for (; i < n; i++) if
\* (this.next().isNone()) return Err(n - i); then return Ok(undefined).
\* The iterator afterwards and the Result returned.
AdvanceLoop(src, n, i) ==
    IF i < n
    THEN LET r == CrabNext(src) IN
         IF isNone(r.ret) THEN [src |-> r.src, ret |-> Err(Num(n - i))]
         ELSE AdvanceLoop(r.src, n, i + 1)
    ELSE [src |-> src, ret |-> Ok(null)]

\* CrabIterator.advanceBy(n).
advanceBy(src, n) == AdvanceLoop(src, n, 0)

\* CrabIterator.nth(n): const r = this.advanceBy(n).ok(); if (r.isNone())
\* return None(); return this.next().
nth(src, n) ==
    LET a == advanceBy(src, n)
        r == ok(a.ret)
    IN  IF Option_isNone(r) THEN [src |-> a.src, ret |-> None]
        ELSE CrabNext(a.src)

\* A finite CrabIterator with some of its items already yielded. was: the
\* iterator before the last call.
InitAdvance ==
    /\ InitList
    /\ opt = NoOpt
    /\ \E src \in CrabSources :
        /\ src.index <= Len(src.items)
        /\ pipe = [kind |-> "Advance", src |-> src, was |-> src, calls |-> 0]

\* iter.advanceBy(n).
AdvanceByCall(n) ==
    /\ pipe.kind = "Advance"
    /\ pipe.calls < MaxCalls
    /\ LET r == advanceBy(pipe.src, n) IN
        /\ pipe' = [pipe EXCEPT !.src = r.src, !.was = pipe.src, !.calls = @ + 1]
        /\ last' = Op("advanceBy", Null, n, r.ret, FALSE)
    /\ UNCHANGED <<listVars, iter, opt>>

\* iter.nth(n).
NthCall(n) ==
    /\ pipe.kind = "Advance"
    /\ pipe.calls < MaxCalls
    /\ LET r == nth(pipe.src, n) IN
        /\ pipe' = [pipe EXCEPT !.src = r.src, !.was = pipe.src, !.calls = @ + 1]
        /\ last' = Op("nth", Null, n, r.ret, FALSE)
    /\ UNCHANGED <<listVars, iter, opt>>

NextAdvance ==
    \/ \E n \in 0..(MaxItems + 1) : AdvanceByCall(n)
    \/ \E n \in 0..(MaxItems + 1) : NthCall(n)

SpecAdvance == InitAdvance /\ [][NextAdvance]_vars

\* C26: on a CrabIterator with m remaining items, advanceBy(n) returns a
\* Result for which isOk() is true when n <= m, having consumed exactly n
\* items, and otherwise the residual count n - m; nth(n) returns what
\* advanceBy(n) followed by one more next() returns: the item at offset n
\* when n < m, Absent otherwise.
C26_AdvanceByNth ==
    pipe.kind = "Advance" =>
        LET n == last.arg
            rem == Remaining(pipe.was)
            m == Len(rem)
        IN  /\ last.op = "advanceBy" =>
                /\ n <= m => (isOk(last.ret) /\ pipe.src.index = pipe.was.index + n)
                /\ n > m => (last.ret = Err(Num(n - m)) /\ Remaining(pipe.src) = <<>>)
            /\ last.op = "nth" =>
                /\ last.ret = CrabNext(advanceBy(pipe.was, n).src).ret
                /\ last.ret = IF n < m THEN rem[n + 1] ELSE Null

\* -------------------------------------------------------------- StepBy

\* StepBy.next(): const stepSize = this.firstTake ? 0 : this.step;
\* this.firstTake = false; return this.iter.nth(stepSize). The upstream and
\* firstTake afterwards, the Option returned.
StepByNext(src, step, firstTake) ==
    LET stepSize == IF firstTake THEN 0 ELSE step
        r == nth(src, stepSize)
    IN  [src |-> r.src, firstTake |-> FALSE, ret |-> r.ret]

\* upstream.stepBy(by) over a finite CrabIterator, by >= 1: the constructor
\* keeps step = by - 1 and firstTake = true.
InitStepBy ==
    /\ InitList
    /\ opt = NoOpt
    /\ \E src \in CrabSources, by \in 1..(MaxItems + 1) :
        /\ src.index <= Len(src.items)
        /\ pipe = [kind |-> "StepBy", src |-> src, src0 |-> src, by |-> by,
                   step |-> by - 1, firstTake |-> TRUE, out |-> <<>>]

\* stepBy.next().
StepByNextCall ==
    /\ pipe.kind = "StepBy"
    /\ Len(pipe.out) < MaxCalls
    /\ LET r == StepByNext(pipe.src, pipe.step, pipe.firstTake) IN
        /\ pipe' = [pipe EXCEPT !.src = r.src, !.firstTake = r.firstTake,
                                !.out = Append(@, r.ret)]
        /\ last' = Op("StepBy.next", Null, 0, r.ret, FALSE)
    /\ UNCHANGED <<listVars, iter, opt>>

SpecStepBy == InitStepBy /\ [][StepByNextCall]_vars

\* The items of s at the indexes 0, by, 2 * by, ... (counted from 0).
EveryNth(s, by) == [i \in 1..((Len(s) + by - 1) \div by) |-> s[(i - 1) * by + 1]]

\* C27: StepBy(step) with step >= 1 never skips the first item: over the
\* upstream items x0, x1, x2, ... its next() calls yield x0, x_step,
\* x_2*step, ... and return Absent only when upstream has no item at the
\* next such index.
C27_StepBy ==
    pipe.kind = "StepBy" =>
        YieldsThenAbsent(pipe.out, EveryNth(Remaining(pipe.src0), pipe.by))

\* -------------------------------------------------- TakeWhile, MapWhile

\* TakeWhile.next that never sets done.
TakeWhileNext_NoLatch(src, pred, done) ==
    LET r == CrabNext(src) IN
    IF isNone(r.ret) \/ r.ret \notin pred THEN [src |-> r.src, done |-> done, ret |-> None]
    ELSE [src |-> r.src, done |-> done, ret |-> r.ret]

\* TakeWhile.next(): None() when done; else pull an item; when there is none
\* or the predicate fails for it, set done and return None(); else the item.
TakeWhileNext(src, pred, done) ==
    IF done THEN [src |-> src, done |-> done, ret |-> None]
    ELSE LET r == CrabNext(src) IN
         IF isNone(r.ret) \/ r.ret \notin pred
         THEN [src |-> r.src, done |-> TRUE, ret |-> None]
         ELSE [src |-> r.src, done |-> done, ret |-> r.ret]

\* The closures a MapWhile is given: an Option (a value, or Null for None)
\* for every item.
MapWhileFns == [Elems -> Wrapped]

\* MapWhile.next(): None() when done; else pull an item; when there is none,
\* set done and return None(); else result = f(item), set done when result
\* is None, and return result.
MapWhileNext(src, f, done) ==
    IF done THEN [src |-> src, done |-> done, ret |-> None]
    ELSE LET r == CrabNext(src) IN
         IF isNone(r.ret) THEN [src |-> r.src, done |-> TRUE, ret |-> None]
         ELSE LET result == f[r.ret] IN
              [src |-> r.src, done |-> (done \/ isNone(result)), ret |-> result]

\* upstream.takeWhile(pred) or upstream.mapWhile(f) over a finite
\* CrabIterator: done = false.
InitWhile ==
    /\ InitList
    /\ opt = NoOpt
    /\ \E src \in CrabSources :
        /\ src.index <= Len(src.items)
        /\ \/ \E pred \in Predicates :
                pipe = [kind |-> "TakeWhile", src |-> src, src0 |-> src, pred |-> pred,
                        done |-> FALSE, out |-> <<>>]
           \/ \E f \in MapWhileFns :
                pipe = [kind |-> "MapWhile", src |-> src, src0 |-> src, f |-> f,
                        done |-> FALSE, out |-> <<>>]

\* takeWhile.next().
TakeWhileNextCall ==
    /\ pipe.kind = "TakeWhile"
    /\ Len(pipe.out) < MaxCalls
    /\ LET r == TakeWhileNext(pipe.src, pipe.pred, pipe.done) IN
        /\ pipe' = [pipe EXCEPT !.src = r.src, !.done = r.done, !.out = Append(@, r.ret)]
        /\ last' = Op("TakeWhile.next", Null, 0, r.ret, FALSE)
    /\ UNCHANGED <<listVars, iter, opt>>

\* mapWhile.next().
MapWhileNextCall ==
    /\ pipe.kind = "MapWhile"
    /\ Len(pipe.out) < MaxCalls
    /\ LET r == MapWhileNext(pipe.src, pipe.f, pipe.done) IN
        /\ pipe' = [pipe EXCEPT !.src = r.src, !.done = r.done, !.out = Append(@, r.ret)]
        /\ last' = Op("MapWhile.next", Null, 0, r.ret, FALSE)
    /\ UNCHANGED <<listVars, iter, opt>>

NextWhile == TakeWhileNextCall \/ MapWhileNextCall

SpecWhile == InitWhile /\ [][NextWhile]_vars

\* s with f applied to each of its items.
MapSeq(s, f) == [i \in 1..Len(s) |-> f[s[i]]]

\* The longest prefix of s that holds no Null.
RECURSIVE PrefixBeforeNull(_)
PrefixBeforeNull(s) ==
    IF s = <<>> \/ s[1] = Null THEN <<>> ELSE <<s[1]>> \o PrefixBeforeNull(Tail(s))

\* What a TakeWhile or a MapWhile makes of each upstream item: the item, or
\* Null when the predicate fails for it; the Option f returns.
WhileImage(p, s) ==
    IF p.kind = "TakeWhile" THEN [i \in 1..Len(s) |-> IF s[i] \in p.pred THEN s[i] ELSE Null]
    ELSE MapSeq(s, p.f)

\* What C28 asks of one step of the program.
C28_Step ==
    pipe'.kind \in {"TakeWhile", "MapWhile"} =>
        LET rem == Remaining(pipe.src0)
            want == PrefixBeforeNull(WhileImage(pipe, rem))
            calls == Len(pipe'.out)
        IN  /\ YieldsThenAbsent(pipe'.out, want)
            /\ pipe'.src.index = pipe.src0.index + Min(calls, Min(Len(want) + 1, Len(rem)))
            /\ pipe'.done <=> calls > Len(want)
            /\ pipe.done => (last'.ret = Null /\ pipe'.src = pipe.src /\ pipe'.done)

\* C28: TakeWhile(pred) and MapWhile(f) yield the upstream items (the mapped
\* values for MapWhile) up to but excluding the first item for which pred is
\* false (f returns Absent); from that call on every next() returns Absent
\* and upstream is not pulled again, even when it still has items that
\* would satisfy pred.
C28_WhileLatch == [][C28_Step]_vars

\* takeWhile over [1, 2] with a predicate that holds for 2 only has returned
\* Absent twice and has left the 2 upstream.
C28_Witness ==
    /\ pipe.kind = "TakeWhile"
    /\ pipe.pred = {2}
    /\ Remaining(pipe.src0) = <<1, 2>>
    /\ pipe.out = <<Null, Null>>
    /\ Remaining(pipe.src) = <<2>>
    /\ pipe.done

\* ---------------------------------------------------------------- Scan

\* The closures a Scan is given: an Option of the next state (a value, or
\* Null for None) for every state and item.
ScanFns == [Elems \X Elems -> Wrapped]

\* Scan.next(): pull an item; None() when there is none; result =
\* f(state, item); None() when result is None; else state = result.unwrap()
\* and return result. called: whether f was called.
ScanNext(src, state, f) ==
    LET r == CrabNext(src) IN
    IF isNone(r.ret) THEN [src |-> r.src, state |-> state, ret |-> None, called |-> FALSE]
    ELSE LET result == f[<<state, r.ret>>] IN
         IF isNone(result)
         THEN [src |-> r.src, state |-> state, ret |-> None, called |-> TRUE]
         ELSE [src |-> r.src, state |-> result, ret |-> result, called |-> TRUE]

\* upstream.scan(state, f) over a finite CrabIterator. fAbsent: f has
\* returned None for some item.
InitScan ==
    /\ InitList
    /\ opt = NoOpt
    /\ \E src \in CrabSources, state \in Elems, f \in ScanFns :
        /\ src.index <= Len(src.items)
        /\ pipe = [kind |-> "Scan", src |-> src, src0 |-> src, state |-> state, f |-> f,
                   fAbsent |-> FALSE, out |-> <<>>]

\* scan.next().
ScanNextCall ==
    /\ pipe.kind = "Scan"
    /\ Len(pipe.out) < MaxCalls
    /\ LET r == ScanNext(pipe.src, pipe.state, pipe.f) IN
        /\ pipe' = [pipe EXCEPT !.src = r.src, !.state = r.state,
                                !.fAbsent = @ \/ (r.called /\ isNone(r.ret)),
                                !.out = Append(@, r.ret)]
        /\ last' = Op("Scan.next", Null, 0, r.ret, FALSE)
    /\ UNCHANGED <<listVars, iter, opt>>

SpecScan == InitScan /\ [][ScanNextCall]_vars

\* What C29 asks of one step of the program.
C29_Step == (pipe.kind = "Scan" /\ pipe.fAbsent) => last'.ret = Null

\* C29: once f has returned Absent for some item, every later call to
\* Scan.next() returns Absent, whether or not upstream still has items and
\* whatever f would return for them.
C29_ScanLatch == [][C29_Step]_vars

\* ----------------------------------------------------------- SkipWhile

RECURSIVE SkipLoop(_, _, _, _)

\* The loop of SkipWhile.next: while (item.isSome() &&
\* this.predicate(item.unwrap())) item = this.iter.next(). evals: the
\* number of times the predicate has been called.
SkipLoop(src, pred, item, evals) ==
    IF isSome(item)
    THEN IF item \in pred
         THEN LET r == CrabNext(src) IN SkipLoop(r.src, pred, r.ret, evals + 1)
         ELSE [src |-> src, ret |-> item, evals |-> evals + 1]
    ELSE [src |-> src, ret |-> item, evals |-> evals]

\* SkipWhile.next that never sets done.
SkipWhileNext_NoLatch(src, pred, done) ==
    LET r == CrabNext(src)
        l == SkipLoop(r.src, pred, r.ret, 0)
    IN  [src |-> l.src, done |-> done, ret |-> l.ret, evals |-> l.evals]

\* SkipWhile.next(): pull an item; return it when done; else run the loop,
\* set done and return the item the loop ends with.
SkipWhileNext(src, pred, done) ==
    LET r == CrabNext(src) IN
    IF done THEN [src |-> r.src, done |-> done, ret |-> r.ret, evals |-> 0]
    ELSE LET l == SkipLoop(r.src, pred, r.ret, 0) IN
         [src |-> l.src, done |-> TRUE, ret |-> l.ret, evals |-> l.evals]

\* upstream.skipWhile(pred) over a finite CrabIterator: done = false.
\* evals: the number of times the predicate has been called.
InitSkipWhile ==
    /\ InitList
    /\ opt = NoOpt
    /\ \E src \in CrabSources, pred \in Predicates :
        /\ src.index <= Len(src.items)
        /\ pipe = [kind |-> "SkipWhile", src |-> src, src0 |-> src, pred |-> pred,
                   done |-> FALSE, evals |-> 0, out |-> <<>>]

\* skipWhile.next().
SkipWhileNextCall ==
    /\ pipe.kind = "SkipWhile"
    /\ Len(pipe.out) < MaxCalls
    /\ LET r == SkipWhileNext(pipe.src, pipe.pred, pipe.done) IN
        /\ pipe' = [pipe EXCEPT !.src = r.src, !.done = r.done, !.evals = @ + r.evals,
                                !.out = Append(@, r.ret)]
        /\ last' = Op("SkipWhile.next", Null, 0, r.ret, FALSE)
    /\ UNCHANGED <<listVars, iter, opt>>

SpecSkipWhile == InitSkipWhile /\ [][SkipWhileNextCall]_vars

\* The longest prefix of s whose items all satisfy the predicate.
RECURSIVE PrefixWhile(_, _)
PrefixWhile(s, pred) ==
    IF s = <<>> \/ s[1] \notin pred THEN <<>> ELSE <<s[1]>> \o PrefixWhile(Tail(s), pred)

\* What C30 asks of one step of the program.
C30_Step ==
    pipe'.kind = "SkipWhile" =>
        LET rem == Remaining(pipe.src0)
            skipped == Len(PrefixWhile(rem, pipe.pred))
            calls == Len(pipe'.out)
        IN  /\ YieldsThenAbsent(pipe'.out, DropSeq(rem, skipped))
            /\ pipe'.src.index = pipe.src0.index + Min(skipped + calls, Len(rem))
            /\ pipe'.evals = Min(skipped + 1, Len(rem))
            /\ pipe.done => pipe'.evals = pipe.evals

\* C30: SkipWhile(pred) discards the longest prefix of upstream items that
\* satisfy pred and then passes every remaining upstream item through
\* unchanged and in order, later items that satisfy pred included; pred is
\* not evaluated again after the first item that fails it has been yielded.
C30_SkipWhile == [][C30_Step]_vars

\* skipWhile over [2, 1] with a predicate that holds for 1 only has yielded
\* 2 and then 1, having called the predicate once.
C30_Witness ==
    /\ pipe.kind = "SkipWhile"
    /\ pipe.pred = {1}
    /\ Remaining(pipe.src0) = <<2, 1>>
    /\ pipe.out = <<2, 1>>
    /\ pipe.evals = 1

\* ------------------------------------------------------------- FlatMap

\* The closures f handed to flatMap: each item is mapped to a fresh finite
\* iterator, given by the items it will yield.
FlatMapFns == [Elems -> SeqsUpTo(Elems, MaxItems)]

\* An inner slot holding no iterator (None()), and one holding an iterator.
NoInner == [some |-> FALSE, it |-> [items |-> <<>>, index |-> 0]]
SomeInner(it) == [some |-> TRUE, it |-> it]

\* FlatMap.next(): when inner is None pull the outer iterator, return None
\* if it is exhausted, else store f(item) in inner; then pull inner once,
\* clear inner when that pull is None, and return the pull's result.
FlatMapNext(src, f, inner) ==
    LET o == CrabNext(src)
        pulled == ~inner.some
        held == IF pulled THEN SomeInner([items |-> f[o.ret], index |-> 0]) ELSE inner
    IN  IF pulled /\ isNone(o.ret)
        THEN [src |-> o.src, inner |-> inner, ret |-> None]
        ELSE LET result == CrabNext(held.it) IN
             [src |-> IF pulled THEN o.src ELSE src,
              inner |-> IF isNone(result.ret) THEN NoInner ELSE SomeInner(result.src),
              ret |-> result.ret]

\* upstream.flatMap(f) over a finite CrabIterator: inner = None().
InitFlatMap ==
    /\ InitList
    /\ opt = NoOpt
    /\ \E src \in CrabSources, f \in FlatMapFns :
        /\ src.index <= Len(src.items)
        /\ pipe = [kind |-> "FlatMap", src |-> src, src0 |-> src, f |-> f,
                   inner |-> NoInner, out |-> <<>>]

\* flatMap.next().
FlatMapNextCall ==
    /\ pipe.kind = "FlatMap"
    /\ Len(pipe.out) < MaxCalls
    /\ LET r == FlatMapNext(pipe.src, pipe.f, pipe.inner) IN
        /\ pipe' = [pipe EXCEPT !.src = r.src, !.inner = r.inner, !.out = Append(@, r.ret)]
        /\ last' = Op("FlatMap.next", Null, 0, r.ret, FALSE)
    /\ UNCHANGED <<listVars, iter, opt>>

SpecFlatMap == InitFlatMap /\ [][FlatMapNextCall]_vars

\* The items of f(x1), then those of f(x2), and so on, for the items of s.
RECURSIVE FlatSeq(_, _)
FlatSeq(s, f) == IF s = <<>> THEN <<>> ELSE f[s[1]] \o FlatSeq(Tail(s), f)

\* C31: FlatMap(f) yields, for the outer items in order, all items of f of
\* the first, then all items of f of the second, and so on, moving past an
\* empty f(x) within the same next() call, so that next() returns Absent
\* only when the outer iterator is exhausted and the inner one is empty.
C31_FlatMap ==
    pipe.kind = "FlatMap" =>
        YieldsThenAbsent(pipe.out, FlatSeq(Remaining(pipe.src0), pipe.f))

\* ------------------------------------------------------------- Flatten

\* A finite outer iterator whose items are fresh finite iterators, each
\* given by the items it will yield.
OuterSources ==
    {[items |-> s, index |-> i] :
        s \in SeqsUpTo(SeqsUpTo(Elems, MaxItems), MaxItems), i \in 0..MaxItems}

\* next() of the outer iterator: the iterator afterwards, whether an item
\* was returned, and the inner iterator returned.
OuterNext(src) ==
    IF src.index < Len(src.items)
    THEN [src |-> [src EXCEPT !.index = src.index + 1], some |-> TRUE,
          it |-> [items |-> src.items[src.index + 1], index |-> 0]]
    ELSE [src |-> src, some |-> FALSE, it |-> [items |-> <<>>, index |-> 0]]

\* Flatten.next(): while (true): when inner (an Option of an item) is Some
\* return inner.take(); pull the outer iterator and return None() when it is
\* exhausted; else inner = item.unwrap().next().
RECURSIVE FlattenNext(_, _)
FlattenNext(src, inner) ==
    IF isSome(inner) THEN [src |-> src, inner |-> None, ret |-> Some(inner)]
    ELSE LET item == OuterNext(src) IN
         IF ~item.some THEN [src |-> item.src, inner |-> inner, ret |-> None]
         ELSE FlattenNext(item.src, CrabNext(item.it).ret)

\* outer.flatten(): inner = None().
InitFlatten ==
    /\ InitList
    /\ opt = NoOpt
    /\ \E src \in OuterSources :
        /\ src.index <= Len(src.items)
        /\ pipe = [kind |-> "Flatten", src |-> src, src0 |-> src, inner |-> None,
                   out |-> <<>>]

\* flatten.next().
FlattenNextCall ==
    /\ pipe.kind = "Flatten"
    /\ Len(pipe.out) < MaxCalls
    /\ LET r == FlattenNext(pipe.src, pipe.inner) IN
        /\ pipe' = [pipe EXCEPT !.src = r.src, !.inner = r.inner, !.out = Append(@, r.ret)]
        /\ last' = Op("Flatten.next", Null, 0, r.ret, FALSE)
    /\ UNCHANGED <<listVars, iter, opt>>

SpecFlatten == InitFlatten /\ [][FlattenNextCall]_vars

\* The sequences of s, one after the other.
RECURSIVE Concat(_)
Concat(s) == IF s = <<>> THEN <<>> ELSE s[1] \o Concat(Tail(s))

\* C32: Flatten over an outer iterator of inner iterators yields every item
\* of every inner iterator, in outer order and within each inner iterator in
\* its own order, and returns Absent only when the outer iterator and all
\* inner iterators are exhausted.
C32_Flatten ==
    pipe.kind = "Flatten" => YieldsThenAbsent(pipe.out, Concat(Remaining(pipe.src0)))

\* ------------------------------------------------------------ Peekable

\* Peekable.next(): return peeked.take() when peeked is Some, else pull
\* upstream. pulls: the number of calls of upstream.next() made.
PeekableNext(src, peeked) ==
    IF isSome(peeked) THEN [src |-> src, peeked |-> None, ret |-> Some(peeked), pulls |-> 0]
    ELSE LET r == CrabNext(src) IN
         [src |-> r.src, peeked |-> peeked, ret |-> r.ret, pulls |-> 1]

\* Peekable.peek(): when peeked is None, peeked = upstream.next(); return
\* peeked.
PeekablePeek(src, peeked) ==
    IF isNone(peeked)
    THEN LET r == CrabNext(src) IN
         [src |-> r.src, peeked |-> r.ret, ret |-> r.ret, pulls |-> 1]
    ELSE [src |-> src, peeked |-> peeked, ret |-> peeked, pulls |-> 0]

\* upstream.peekable() over a finite CrabIterator: peeked = None().
\* out: what the next() calls returned; calls: the calls made so far.
InitPeekable ==
    /\ InitList
    /\ opt = NoOpt
    /\ \E src \in CrabSources :
        /\ src.index <= Len(src.items)
        /\ pipe = [kind |-> "Peekable", src |-> src, src0 |-> src, peeked |-> None,
                   pulls |-> 0, calls |-> 0, out |-> <<>>]

\* peekable.next().
PeekableNextCall ==
    /\ pipe.kind = "Peekable"
    /\ pipe.calls < MaxCalls
    /\ LET r == PeekableNext(pipe.src, pipe.peeked) IN
        /\ pipe' = [pipe EXCEPT !.src = r.src, !.peeked = r.peeked, !.pulls = r.pulls,
                                !.calls = @ + 1, !.out = Append(@, r.ret)]
        /\ last' = Op("Peekable.next", Null, 0, r.ret, FALSE)
    /\ UNCHANGED <<listVars, iter, opt>>

\* peekable.peek().
PeekablePeekCall ==
    /\ pipe.kind = "Peekable"
    /\ pipe.calls < MaxCalls
    /\ LET r == PeekablePeek(pipe.src, pipe.peeked) IN
        /\ pipe' = [pipe EXCEPT !.src = r.src, !.peeked = r.peeked, !.pulls = r.pulls,
                                !.calls = @ + 1]
        /\ last' = Op("Peekable.peek", Null, 0, r.ret, FALSE)
    /\ UNCHANGED <<listVars, iter, opt>>

NextPeekable == PeekableNextCall \/ PeekablePeekCall
SpecPeekable == InitPeekable /\ [][NextPeekable]_vars

\* The number of items in a sequence of returned Options.
Presents(out) == Cardinality({i \in 1..Len(out) : isSome(out[i])})

\* next() returns upstream's items in order; peek() returns what the
\* following next() returns; upstream is at most one item ahead.
C33_Values ==
    pipe'.kind = "Peekable" =>
        /\ YieldsThenAbsent(pipe'.out, Remaining(pipe.src0))
        /\ last'.op = "Peekable.peek" =>
            last'.ret = PeekableNext(pipe'.src, pipe'.peeked).ret
        /\ pipe'.src.index - pipe.src0.index <= Presents(pipe'.out) + 1

\* A peek() that follows a peek() returns the same value and does not pull
\* upstream again.
C33_PeekAgain ==
    (pipe.kind = "Peekable" /\ last.op = "Peekable.peek" /\ last'.op = "Peekable.peek") =>
        /\ last'.ret = last.ret
        /\ pipe'.pulls = 0

\* C33: for any interleaving of peek() and next() on a Peekable over a
\* finite upstream, next() returns exactly upstream's items in order, peek()
\* returns the value the following next() will return, consecutive peek()
\* calls return the same value and pull upstream at most once, and upstream
\* is never more than one item ahead of what next() has returned.
C33_Peekable == [][C33_Values /\ C33_PeekAgain]_vars

\* The part of C33 about the values returned.
C33_ValuesHold == [][C33_Values]_vars

\* --------------------------------------------------------- Intersperse

\* Intersperse.next() that returns the separator whenever needsSeparator is
\* set, without peeking.
IntersperseNext_NoPeek(src, peeked, separator, needsSeparator) ==
    IF needsSeparator
    THEN [src |-> src, peeked |-> peeked, needsSeparator |-> FALSE, ret |-> Some(separator)]
    ELSE LET n == PeekableNext(src, peeked) IN
         [src |-> n.src, peeked |-> n.peeked, needsSeparator |-> TRUE, ret |-> n.ret]

\* Intersperse.next() over its Peekable (src, peeked): when needsSeparator
\* and this.iter.peek().isSome(), clear needsSeparator and return
\* Some(separator); else set needsSeparator and return this.iter.next().
\* peek() is called only when needsSeparator holds.
IntersperseNext(src, peeked, separator, needsSeparator) ==
    LET p == PeekablePeek(src, peeked) IN
    IF needsSeparator /\ isSome(p.ret)
    THEN [src |-> p.src, peeked |-> p.peeked, needsSeparator |-> FALSE,
          ret |-> Some(separator)]
    ELSE LET s == IF needsSeparator THEN p ELSE [src |-> src, peeked |-> peeked]
             n == PeekableNext(s.src, s.peeked)
         IN  [src |-> n.src, peeked |-> n.peeked, needsSeparator |-> TRUE, ret |-> n.ret]

\* upstream.intersperse(separator) over a finite CrabIterator: a Peekable
\* over upstream, needsSeparator = false.
InitIntersperse ==
    /\ InitList
    /\ opt = NoOpt
    /\ \E src \in CrabSources, separator \in Elems :
        /\ src.index <= Len(src.items)
        /\ pipe = [kind |-> "Intersperse", src |-> src, src0 |-> src, peeked |-> None,
                   separator |-> separator, needsSeparator |-> FALSE, out |-> <<>>]

\* intersperse.next().
IntersperseNextCall ==
    /\ pipe.kind = "Intersperse"
    /\ Len(pipe.out) < MaxCalls
    /\ LET r == IntersperseNext(pipe.src, pipe.peeked, pipe.separator, pipe.needsSeparator) IN
        /\ pipe' = [pipe EXCEPT !.src = r.src, !.peeked = r.peeked,
                                !.needsSeparator = r.needsSeparator,
                                !.out = Append(@, r.ret)]
        /\ last' = Op("Intersperse.next", Null, 0, r.ret, FALSE)
    /\ UNCHANGED <<listVars, iter, opt>>

SpecIntersperse == InitIntersperse /\ [][IntersperseNextCall]_vars

\* x1, sep, x2, sep, ..., xn for the items x1..xn of s.
RECURSIVE Interspersed(_, _)
Interspersed(s, sep) ==
    IF Len(s) <= 1 THEN s ELSE <<s[1], sep>> \o Interspersed(Tail(s), sep)

\* C34: Intersperse(sep) over upstream items x1..xn yields x1, sep, x2, sep,
\* ..., xn, which is 2n-1 items for n >= 1 and none for n = 0, with no
\* separator before the first or after the last item; after xn every next()
\* returns Absent.
C34_Intersperse ==
    pipe.kind = "Intersperse" =>
        LET rem == Remaining(pipe.src0)
            want == Interspersed(rem, pipe.separator)
        IN  /\ Len(want) = IF rem = <<>> THEN 0 ELSE 2 * Len(rem) - 1
            /\ YieldsThenAbsent(pipe.out, want)

\* intersperse(1) over [2, 2] has yielded 2, 1, 2 and then Absent twice.
C34_Witness ==
    /\ pipe.kind = "Intersperse"
    /\ pipe.separator = 1
    /\ Remaining(pipe.src0) = <<2, 2>>
    /\ pipe.out = <<2, 1, 2, Null, Null>>

\* ----------------------------------------------------------------- Zip

\* The Option of a pair is written as the pair, None as the empty tuple.
NoPair == <<>>

\* Zip.next(): pull iter1, pull iter2; None() if either pull is None, else
\* Some([x, y]).
ZipNext(a, b) ==
    LET x == CrabNext(a)
        y == CrabNext(b)
    IN  [a |-> x.src, b |-> y.src,
         ret |-> IF isNone(x.ret) \/ isNone(y.ret) THEN NoPair ELSE <<x.ret, y.ret>>]

\* a.zip(b) over two finite CrabIterators has entered the constructor of Zip
\* and is about to evaluate Math.min(iter1.count(), iter2.count()).
\* pc: "count1"/"count2" at the first line of fold within the first/second
\* count(), "while1"/"while2" at its loop, "built" once constructed.
\* rounds: the number of times a fold loop has run its body.
InitZip ==
    /\ InitList
    /\ opt = NoOpt
    /\ \E a, b \in CrabSources :
        /\ a.index <= Len(a.items)
        /\ b.index <= Len(b.items)
        /\ pipe = [kind |-> "Zip", a |-> a, b |-> b, a0 |-> a, b0 |-> b, pc |-> "count1",
                   item |-> Null, accum |-> 0, n1 |-> 0, len |-> 0, rounds |-> 0,
                   out |-> <<>>]

\* count() -> fold: let accum = init; let item = this.next();
ZipCountBegin ==
    /\ pipe.kind = "Zip"
    /\ pipe.pc \in {"count1", "count2"}
    /\ LET first == pipe.pc = "count1"
           r == CrabNext(IF first THEN pipe.a ELSE pipe.b)
       IN  pipe' = [pipe EXCEPT !.a = IF first THEN r.src ELSE @,
                                !.b = IF first THEN @ ELSE r.src,
                                !.item = r.ret, !.accum = 0,
                                !.pc = IF first THEN "while1" ELSE "while2"]
    /\ UNCHANGED <<listVars, iter, opt, last>>

\* fold: while (item.isSome()) { accum = f(accum, item.unwrap()); }
\* one round of the loop, which assigns accum only.
ZipCountRound ==
    /\ pipe.kind = "Zip"
    /\ pipe.pc \in {"while1", "while2"}
    /\ isSome(pipe.item)
    /\ pipe.rounds < MaxCalls
    /\ pipe' = [pipe EXCEPT !.accum = FoldFn("count", @, pipe.item), !.rounds = @ + 1]
    /\ UNCHANGED <<listVars, iter, opt, last>>

\* fold: the loop condition is false; count() returns accum. After the
\* second count() the constructor sets len and returns.
ZipCountReturn ==
    /\ pipe.kind = "Zip"
    /\ pipe.pc \in {"while1", "while2"}
    /\ isNone(pipe.item)
    /\ pipe' = IF pipe.pc = "while1"
               THEN [pipe EXCEPT !.n1 = pipe.accum, !.pc = "count2"]
               ELSE [pipe EXCEPT !.len = Min(pipe.n1, pipe.accum), !.pc = "built"]
    /\ UNCHANGED <<listVars, iter, opt, last>>

\* zip.next(); last.ret records whether a pair was returned.
ZipNextCall ==
    /\ pipe.kind = "Zip"
    /\ pipe.pc = "built"
    /\ Len(pipe.out) < MaxCalls
    /\ LET r == ZipNext(pipe.a, pipe.b) IN
        /\ pipe' = [pipe EXCEPT !.a = r.a, !.b = r.b, !.out = Append(@, r.ret)]
        /\ last' = Op("Zip.next", Null, 0, Len(r.ret), FALSE)
    /\ UNCHANGED <<listVars, iter, opt>>

NextZip == ZipCountBegin \/ ZipCountRound \/ ZipCountReturn \/ ZipNextCall
SpecZip == InitZip /\ [][NextZip]_vars

\* The pairs of the i-th items of s and t, while both have one.
Zipped(s, t) == [i \in 1..Min(Len(s), Len(t)) |-> <<s[i], t[i]>>]

\* C35: constructing Zip(a, b) pulls no item from a or from b, and the i-th
\* call to Zip.next() then yields the pair of a's i-th and b's i-th items
\* while both have one, and Absent from the first call at which either side
\* is exhausted.
C35_ZipLazy ==
    pipe.kind = "Zip" =>
        /\ pipe.pc # "built" => (pipe.a = pipe.a0 /\ pipe.b = pipe.b0)
        /\ LET want == Zipped(Remaining(pipe.a0), Remaining(pipe.b0)) IN
           \A i \in 1..Len(pipe.out) :
               pipe.out[i] = IF i <= Len(want) THEN want[i] ELSE NoPair

\* -------------------------------------------------------- Zip.sizeHint

\* What sizeHint() of an upstream may return: [lower, upper] with upper an
\* Option of a number not below lower.
SizeHints ==
    {<<lo, NewOption(null)>> : lo \in 0..MaxItems}
        \cup {<<lo, NewOption(Num(hi))>> : lo \in 0..MaxItems, hi \in 0..MaxItems}

\* Zip.sizeHint() with an upper bound that is Some only if both are.
ZipSizeHint_Both(h1, h2) ==
    <<Min(h1[1], h2[1]),
      IF Option_isSome(h1[2]) /\ Option_isSome(h2[2]) THEN h1[2] ELSE Option_None>>

\* Zip.sizeHint(), given what iter1.sizeHint() and iter2.sizeHint() return:
\* [Math.min(min1, min2), max1.or(max2)].
ZipSizeHint(h1, h2) == <<Min(h1[1], h2[1]), Option_or(h1[2], h2[2]).ret>>

\* A Zip whose upstreams report the size hints h1 and h2.
InitSizeHint ==
    /\ InitList
    /\ opt = NoOpt
    /\ \E h1, h2 \in SizeHints :
        /\ Option_isSome(h1[2]) => h1[1] <= h1[2].value.n
        /\ Option_isSome(h2[2]) => h2[1] <= h2[2].value.n
        /\ pipe = [kind |-> "Zip.sizeHint", h1 |-> h1, h2 |-> h2, called |-> FALSE,
                   ret |-> <<0, Option_None>>]

\* zip.sizeHint().
ZipSizeHintCall ==
    /\ pipe.kind = "Zip.sizeHint"
    /\ ~pipe.called
    /\ pipe' = [pipe EXCEPT !.called = TRUE, !.ret = ZipSizeHint(pipe.h1, pipe.h2)]
    /\ last' = Op("Zip.sizeHint", Null, 0, Null, FALSE)
    /\ UNCHANGED <<listVars, iter, opt>>

SpecSizeHint == InitSizeHint /\ [][ZipSizeHintCall]_vars

\* C36 as stated: Zip.sizeHint() returns as lower bound the minimum of the
\* two upstream lower bounds, and as upper bound a Present value only if
\* both upstreams report a Present upper bound.
C36_UpperOnlyIfBoth ==
    (pipe.kind = "Zip.sizeHint" /\ pipe.called) =>
        /\ pipe.ret[1] = Min(pipe.h1[1], pipe.h2[1])
        /\ Option_isSome(pipe.ret[2]) =>
            (Option_isSome(pipe.h1[2]) /\ Option_isSome(pipe.h2[2]))

\* C36 amended: Zip.sizeHint() returns as lower bound the minimum of the two
\* upstream lower bounds, and as upper bound the first upstream's upper
\* bound when that is Present, else the second upstream's: a Present value
\* if either upstream reports one, Absent only if both report Absent.
C36_UpperIfEither ==
    (pipe.kind = "Zip.sizeHint" /\ pipe.called) =>
        /\ pipe.ret[1] = Min(pipe.h1[1], pipe.h2[1])
        /\ pipe.ret[2] = IF Option_isSome(pipe.h1[2]) THEN pipe.h1[2] ELSE pipe.h2[2]
        /\ Option_isSome(pipe.ret[2]) <=>
            (Option_isSome(pipe.h1[2]) \/ Option_isSome(pipe.h2[2]))

\* sizeHint() of a Zip whose first upstream reports [2, None] and whose
\* second reports [1, Some(2)] has returned [1, Some(2)].
C36_Witness ==
    /\ pipe.kind = "Zip.sizeHint"
    /\ pipe.called
    /\ pipe.h1 = <<2, Option_None>>
    /\ pipe.h2 = <<1, NewOption(Num(2))>>
    /\ pipe.ret = <<1, NewOption(Num(2))>>

\* ---------------------------------------------------------------- Skip

\* Skip.next(): if (this.n === 0) return this.iter.next(); this.n--; return
\* this.iter.next(). The upstream and the counter afterwards, the Option
\* returned.
SkipNext(src, n) ==
    LET r == CrabNext(src) IN
    IF n = 0 THEN [src |-> r.src, n |-> n, ret |-> r.ret]
    ELSE [src |-> r.src, n |-> n - 1, ret |-> r.ret]

\* upstream.skip(k) over a finite CrabIterator, for k from 0 to one more
\* than the upstream can hold.
InitSkip ==
    /\ InitList
    /\ opt = NoOpt
    /\ \E src \in CrabSources, k \in 0..(MaxItems + 1) :
        /\ src.index <= Len(src.items)
        /\ pipe = [kind |-> "Skip", src |-> src, src0 |-> src, n |-> k, k |-> k, out |-> <<>>]

\* skip.next().
SkipNextCall ==
    /\ pipe.kind = "Skip"
    /\ Len(pipe.out) < MaxCalls
    /\ LET r == SkipNext(pipe.src, pipe.n) IN
        /\ pipe' = [pipe EXCEPT !.src = r.src, !.n = r.n, !.out = Append(@, r.ret)]
        /\ last' = Op("Skip.next", Null, 0, r.ret, FALSE)
    /\ UNCHANGED <<listVars, iter, opt>>

SpecSkip == InitSkip /\ [][SkipNextCall]_vars

FilterMapNext(src, f) ==
    LET r == CrabNext(src) IN
    [src |-> r.src, ret |-> IF isSome(r.ret) THEN f[r.ret] ELSE None]

\* upstream.filterMap(f) over a finite CrabIterator, f returning an Option
\* for every item.
InitFilterMap ==
    /\ InitList
    /\ opt = NoOpt
    /\ \E src \in CrabSources, f \in MapWhileFns :
        /\ src.index <= Len(src.items)
        /\ pipe = [kind |-> "FilterMap", src |-> src, src0 |-> src, f |-> f, out |-> <<>>]

\* filterMap.next().
FilterMapNextCall ==
    /\ pipe.kind = "FilterMap"
    /\ Len(pipe.out) < MaxCalls
    /\ LET r == FilterMapNext(pipe.src, pipe.f) IN
        /\ pipe' = [pipe EXCEPT !.src = r.src, !.out = Append(@, r.ret)]
        /\ last' = Op("FilterMap.next", Null, 0, r.ret, FALSE)
    /\ UNCHANGED <<listVars, iter, opt>>

SpecFilterMap == InitFilterMap /\ [][FilterMapNextCall]_vars

\* f's Present results for the items of s, in order.
RECURSIVE PresentResults(_, _)
PresentResults(s, f) ==
    IF s = <<>> THEN <<>>
    ELSE (IF isSome(f[s[1]]) THEN <<f[s[1]]>> ELSE <<>>) \o PresentResults(Tail(s), f)

IterForOf(h, it) == ElemsFrom(h, it.head, MaxNodes + 1)

\* Iter.any(f), f given by the elements it holds for: walk from this.head
\* by next until null, stop at the first element f holds for. seen: the
\* elements f was called with.
RECURSIVE IterAnyFrom(_, _, _, _)
IterAnyFrom(h, n, f, fuel) ==
    IF n = Null \/ fuel = 0 THEN [ret |-> FALSE, seen |-> <<>>]
    ELSE IF h.element[n] \in f THEN [ret |-> TRUE, seen |-> <<h.element[n]>>]
    ELSE LET r == IterAnyFrom(h, h.next[n], f, fuel - 1) IN
         [ret |-> r.ret, seen |-> <<h.element[n]>> \o r.seen]
IterAny(h, it, f) == IterAnyFrom(h, it.head, f, MaxNodes + 1)

\* iter.fold(init, f), iter.forEach(f) or for (const item of iter): pipe
\* records the elements visited.
IterVisitCall(how) ==
    /\ iter.list # Null
    /\ pipe' = [kind |-> how, f |-> {}, seen |-> IterForOf(Heap, iter.it)]
    /\ last' = Op(how, iter.list, 0, Null, FALSE)
    /\ UNCHANGED <<listVars, iter, opt>>

\* iter.any(f): pipe records the elements f was called with.
IterAnyCall(f) ==
    /\ iter.list # Null
    /\ LET r == IterAny(Heap, iter.it, f) IN
        /\ pipe' = [kind |-> "any", f |-> f, seen |-> r.seen]
        /\ last' = Op("any", iter.list, 0, IF r.ret THEN 1 ELSE Null, FALSE)
    /\ UNCHANGED <<listVars, iter, opt>>

\* A list built by pushes at both ends while no Iter is live, an Iter over
\* it driven from both ends in any order, and then one traversal of the
\* Iter or any number of last() calls.
NextWindow ==
    \/ \E l \in Lists, x \in Elems : iter.list = Null /\ PushFront(l, x) /\ Plain
    \/ \E l \in Lists, x \in Elems : iter.list = Null /\ PushBack(l, x) /\ Plain
    \/ \E l \in Lists : pipe = NoPipe /\ IterCreate(l)
    \/ pipe = NoPipe /\ IterNextCall
    \/ pipe = NoPipe /\ IterNextBackCall
    \/ pipe = NoPipe /\ IterLastCall
    \/ \E how \in {"fold", "forEach", "for-of"} : pipe = NoPipe /\ IterVisitCall(how)
    \/ \E f \in Predicates : pipe = NoPipe /\ IterAnyCall(f)

SpecWindow == Init /\ [][NextWindow]_vars

\* The elements of the nodes the live Iter has not yielded yet: those
\* between the nodes next() has yielded and the nodes nextBack() has yielded.
Window ==
    LET ns == WalkNodes(Heap, iter.list)
        w == SubSeq(ns, Len(iter.fwd) + 1, Len(ns) - Len(iter.bwd))
    IN  [i \in 1..Len(w) |-> Heap.element[w[i]]]

\* What C39 asks of one step of the program.
C39_Step ==
    /\ last'.op \in {"fold", "forEach", "for-of"} => pipe'.seen = Window
    /\ last'.op = "any" =>
        /\ pipe'.seen = TakeSeq(Window, Min(Len(PrefixWhile(Window, Elems \ pipe'.f)) + 1,
                                            Len(Window)))
        /\ last'.ret # Null <=> \E i \in 1..Len(Window) : Window[i] \in pipe'.f
    /\ last'.op = "last" =>
        last'.ret = IF Window = <<>> THEN Null ELSE Window[Len(Window)]

\* C39: after any interleaving of next() and nextBack() calls on an Iter
\* over n elements, fold, forEach, for-of iteration and any visit exactly
\* the elements between the consumed front and the consumed back (none when
\* the Iter is exhausted), and last() returns the last element of that
\* window, Absent when the window is empty.
C39_Window == [][C39_Step]_vars

\* -------------------------------------------------------- Cursor.index

\* Cursor.index(): return this.idx.
index(c) == c.idx

\* Lists built by pushes and pops while no cursor is live, and a cursor
\* moved over a list and removing from it while nothing else mutates it.
NextIndex ==
    \/ \E l \in Lists, x \in Elems : cursor.list = Null /\ PushFront(l, x) /\ Plain
    \/ \E l \in Lists, x \in Elems : cursor.list = Null /\ PushBack(l, x) /\ Plain
    \/ \E l \in Lists : cursor.list = Null /\ PopFront(l) /\ Plain
    \/ \E l \in Lists : CursorFront(l) /\ Plain
    \/ \E l \in Lists : CursorBack(l) /\ Plain
    \/ MoveNext /\ Plain
    \/ MovePrev /\ Plain
    \/ RemoveCurrent /\ Plain
    \/ DropCursor /\ Plain

SpecIndex == Init /\ [][NextIndex]_vars

\* C40: whenever a Cursor is positioned at a node, index() equals that
\* node's zero-based position counted from the list's head, in every state
\* reached from cursorFront() or cursorBack() by moveNext, movePrev and
\* removeCurrent on a list that is not otherwise mutated.
C40_IndexIsPosition ==
    (cursor.list # Null /\ cursor.curr # Null) =>
        LET ns == WalkNodes(Heap, cursor.list) IN
        /\ index(cursor) \in 0..(Len(ns) - 1)
        /\ ns[index(cursor) + 1] = cursor.curr

\* A removeCurrent has left the cursor on the second of the two nodes that
\* remain, and index() is 1.
C40_Witness ==
    /\ last.op = "removeCurrent"
    /\ last.ret # Null
    /\ cursor.curr # Null
    /\ len(Heap, cursor.list) = 2
    /\ Heap.prev[cursor.curr] # Null
    /\ index(cursor) = 1

=============================================================================
